---- MODULE Spec2Model ----
(***************************************************************************)
(* A model of modfile/rule.go: decoding the statements of a go.mod syntax  *)
(* tree into Module/Require/Exclude/Replace records (Parse, File.add) and  *)
(* the edit operations that keep the records and the tree in step.         *)
(*                                                                         *)
(* Strings are sequences of one-character strings, so that prefix tests,   *)
(* quoting, unquoting and byte order are computed and not assumed.         *)
(* A *Line is an index into the store `lines`; the nil pointer is 0.       *)
(***************************************************************************)
EXTENDS Integers, Sequences, FiniteSets, TLC

VARIABLES
  f,         \* the File: [Module, Require, Exclude, Replace, Stmt, lines, panic]
             \*   Module: NoModule (nil) or [Path, Syntax]
             \*   Require, Exclude: sequences of [Path, Version, Syntax]
             \*   Replace: sequence of [Old, New, Syntax]
             \*   Stmt: f.Syntax.Stmt, a sequence of Line / LineBlock statements
             \*   lines: the store of Line objects, indexed by *Line
             \*   panic: TRUE once an operation has panicked (it never returns)
  errs,      \* Parse: the diagnostics buffer, one entry per Fprintf
  fix,       \* Parse: the VersionFixer argument
  Separator, \* filepath.Separator of the build
  pc,        \* "parse" while Parse decodes, "failed", "parsed", or "edit"
  pos,       \* Parse: the statement (and line of a block) decoded next
  last,      \* the last operation, its arguments, and whether it repeats
             \* the call before it
  pre,       \* the File as it was before the last operation
  nops       \* number of edit operations applied

vars == <<f, errs, fix, Separator, pc, pos, last, pre, nops>>

----------------------------------------------------------------------------
(* Bounds *)

MaxOps == 3
MaxLines == 7

----------------------------------------------------------------------------
(* Strings *)

Digits == {"0", "1", "2", "3", "4", "5", "6", "7", "8", "9"}
Lower == {"a", "b", "c", "d", "e", "f", "g", "h", "i", "j", "k", "l", "m",
          "n", "o", "p", "q", "r", "s", "t", "u", "v", "w", "x", "y", "z"}
Upper == {"A", "B", "C", "D", "E", "F", "G", "H", "I", "J", "K", "L", "M",
          "N", "O", "P", "Q", "R", "S", "T", "U", "V", "W", "X", "Y", "Z"}

\* The backquote character (byte 96), which a TLA+ string cannot hold.
BQ == "<backquote>"
DQ == "\""
BS == "\\"

\* The printable ASCII characters in byte order, from 32 (space) to 126.
Printable ==
  <<" ", "!", "\"", "#", "$", "%", "&", "'", "(", ")", "*", "+", ",", "-",
    ".", "/", "0", "1", "2", "3", "4", "5", "6", "7", "8", "9", ":", ";",
    "<", "=", ">", "?", "@", "A", "B", "C", "D", "E", "F", "G", "H", "I",
    "J", "K", "L", "M", "N", "O", "P", "Q", "R", "S", "T", "U", "V", "W",
    "X", "Y", "Z", "[", "\\", "]", "^", "_", BQ, "a", "b", "c", "d", "e",
    "f", "g", "h", "i", "j", "k", "l", "m", "n", "o", "p", "q", "r", "s",
    "t", "u", "v", "w", "x", "y", "z", "{", "|", "}", "~">>

\* unicode.IsPrint on the characters of the model: all but tab and newline.
IsPrint(c) == c \notin {"\t", "\n"}

\* The byte value of a character, for Go's string comparison.
Byte(c) ==
  IF c = "\t" THEN 9
  ELSE IF c = "\n" THEN 10
  ELSE 31 + (CHOOSE i \in 1..95 : Printable[i] = c)

\* Go's s < t on strings: byte-wise lexicographic order.
RECURSIVE StrLess(_, _)
StrLess(s, t) ==
  IF t = <<>> THEN FALSE
  ELSE IF s = <<>> THEN TRUE
  ELSE IF s[1] # t[1] THEN Byte(s[1]) - Byte(t[1]) < 0
  ELSE StrLess(Tail(s), Tail(t))

HasPrefix(s, p) == Len(s) >= Len(p) /\ SubSeq(s, 1, Len(p)) = p

Contains(s, sub) ==
  \E i \in 1..(Len(s) - Len(sub) + 1) : SubSeq(s, i, i + Len(sub) - 1) = sub

ContainsAny(s, chars) == \E i \in 1..Len(s) : s[i] \in chars

\* strings.LastIndex(s, c) for a one-character c: 0-based, -1 when absent.
LastIndex(s, c) ==
  IF \E i \in 1..Len(s) : s[i] = c
  THEN (CHOOSE i \in 1..Len(s) : s[i] = c /\ \A j \in (i+1)..Len(s) : s[j] # c) - 1
  ELSE -1

\* Go's s[start:] with a 0-based start.
From(s, start) == SubSeq(s, start + 1, Len(s))

\* strconv.Quote on the characters of the model.
RECURSIVE Escape(_)
Escape(s) ==
  IF s = <<>> THEN <<>>
  ELSE (IF s[1] = DQ THEN <<BS, DQ>>
        ELSE IF s[1] = BS THEN <<BS, BS>>
        ELSE IF s[1] = "\t" THEN <<BS, "t">>
        ELSE IF s[1] = "\n" THEN <<BS, "n">>
        ELSE <<s[1]>>) \o Escape(Tail(s))

Quote(s) == <<DQ>> \o Escape(s) \o <<DQ>>

\* The character c before the unescaped rest r, when the rest is well-formed.
Cons(c, r) ==
  IF r.ok THEN [ok |-> TRUE, s |-> <<c>> \o r.s] ELSE [ok |-> FALSE, s |-> <<>>]

\* The body of a double-quoted literal, unescaped: [ok, s].
RECURSIVE Unescape(_)
Unescape(b) ==
  IF b = <<>> THEN [ok |-> TRUE, s |-> <<>>]
  ELSE IF b[1] = DQ \/ b[1] = "\n" THEN [ok |-> FALSE, s |-> <<>>]
  ELSE IF b[1] = BS
    THEN IF Len(b) < 2 THEN [ok |-> FALSE, s |-> <<>>]
         ELSE IF b[2] \notin {DQ, BS, "t", "n"} THEN [ok |-> FALSE, s |-> <<>>]
         ELSE Cons(IF b[2] = "t" THEN "\t" ELSE IF b[2] = "n" THEN "\n" ELSE b[2],
                   Unescape(SubSeq(b, 3, Len(b))))
    ELSE Cons(b[1], Unescape(Tail(b)))

\* strconv.Unquote of a token that starts with a double quote.
Unquote(t) ==
  IF Len(t) < 2 \/ t[1] # DQ \/ t[Len(t)] # DQ
  THEN [ok |-> FALSE, s |-> <<>>]
  ELSE Unescape(SubSeq(t, 2, Len(t) - 1))

MustQuote(s) ==
  \/ \E i \in 1..Len(s) :
       ~IsPrint(s[i]) \/ s[i] = " " \/ s[i] = DQ \/ s[i] = "'" \/ s[i] = BQ
  \/ s = <<>>
  \/ Contains(s, <<"/", "/">>)
  \/ Contains(s, <<"/", "*">>)

AutoQuote(s) == IF MustQuote(s) THEN Quote(s) ELSE s

\* parseString(&tok): [ok, s, tok], tok being the token as it is left behind.
parseString(tok) ==
  LET Unquoted(u) ==
        IF ~u.ok THEN [ok |-> FALSE, s |-> <<>>, tok |-> tok]
        ELSE [ok |-> TRUE, s |-> u.s, tok |-> AutoQuote(u.s)]
  IN Unquoted(IF HasPrefix(tok, <<DQ>>) THEN Unquote(tok)
              ELSE IF ContainsAny(tok, {DQ, "'", BQ}) THEN [ok |-> FALSE, s |-> <<>>]
              ELSE [ok |-> TRUE, s |-> tok])

\* IsDirectoryPath as it would be if only the Unix syntaxes were checked.
IsDirectoryPathUnix(ns) ==
  \/ HasPrefix(ns, <<".", "/">>) \/ HasPrefix(ns, <<".", ".", "/">>)
  \/ HasPrefix(ns, <<"/">>)

\* All known path syntaxes are checked, both Unix and Windows.
IsDirectoryPath(ns) ==
  \/ HasPrefix(ns, <<".", "/">>) \/ HasPrefix(ns, <<".", ".", "/">>)
  \/ HasPrefix(ns, <<"/">>)
  \/ HasPrefix(ns, <<".", BS>>) \/ HasPrefix(ns, <<".", ".", BS>>)
  \/ HasPrefix(ns, <<BS>>)
  \/ (Len(ns) >= 2 /\ (ns[1] \in Upper \/ ns[1] \in Lower) /\ ns[2] = ":")

----------------------------------------------------------------------------
(* The semver package: IsValid, Canonical, Major *)

\* The longest prefix of s made of digits.
RECURSIVE TakeDigits(_)
TakeDigits(s) ==
  IF s # <<>> /\ s[1] \in Digits THEN <<s[1]>> \o TakeDigits(Tail(s)) ELSE <<>>

\* A decimal number without a leading zero.
IsNum(d) == d # <<>> /\ (d[1] = "0" => Len(d) = 1)

\* The prefix of s before the first "+" (the whole of s when there is none).
RECURSIVE UpToPlus(_)
UpToPlus(s) ==
  IF s = <<>> \/ s[1] = "+" THEN <<>> ELSE <<s[1]>> \o UpToPlus(Tail(s))

\* Dot-separated, non-empty identifiers of letters, digits and hyphens.
IsIdents(b) ==
  /\ b # <<>>
  /\ \A i \in 1..Len(b) : b[i] \in Digits \cup Lower \cup Upper \cup {"-", "."}
  /\ b[1] # "." /\ b[Len(b)] # "."
  /\ ~Contains(b, <<".", ".">>)

NoSemver == [ok |-> FALSE, major |-> <<>>, short |-> <<>>, build |-> <<>>]

Semver(major, short, build) ==
  [ok |-> TRUE, major |-> major, short |-> short, build |-> build]

\* What follows the patch number: [-PRERELEASE][+BUILD]
SemverTail(major, r3) ==
  LET Build3(prerel, r4) ==
        IF r4 = <<>>
          THEN IF prerel # <<>> => IsIdents(Tail(prerel))
               THEN Semver(major, <<>>, <<>>) ELSE NoSemver
        ELSE IF r4[1] = "+" /\ IsIdents(Tail(r4))
                /\ (prerel # <<>> => IsIdents(Tail(prerel)))
          THEN Semver(major, <<>>, r4)
        ELSE NoSemver
      Prerel(prerel) == Build3(prerel, From(r3, Len(prerel)))
  IN Prerel(IF r3 # <<>> /\ r3[1] = "-" THEN UpToPlus(r3) ELSE <<>>)

\* What follows the minor number: [.PATCH...]
SemverPatch(major, r2) ==
  LET Patch(patch) ==
        IF ~IsNum(patch) THEN NoSemver
        ELSE SemverTail(major, From(r2, 1 + Len(patch)))
  IN IF r2 = <<>> THEN Semver(major, <<".", "0">>, <<>>)
     ELSE IF r2[1] # "." THEN NoSemver
     ELSE Patch(TakeDigits(Tail(r2)))

\* What follows the major number: [.MINOR...]
SemverMinor(major, r1) ==
  LET Minor(minor) ==
        IF ~IsNum(minor) THEN NoSemver
        ELSE SemverPatch(major, From(r1, 1 + Len(minor)))
  IN IF r1 = <<>> THEN Semver(major, <<".", "0", ".", "0">>, <<>>)
     ELSE IF r1[1] # "." THEN NoSemver
     ELSE Minor(TakeDigits(Tail(r1)))

\* vMAJOR[.MINOR[.PATCH[-PRERELEASE][+BUILD]]]: [ok, major, short, build],
\* short being what a short form lacks and build the +BUILD suffix.
ParseSemver(v) ==
  LET Major1(major) ==
        IF ~IsNum(major) THEN NoSemver
        ELSE SemverMinor(major, From(v, 1 + Len(major)))
  IN IF v = <<>> \/ v[1] # "v" THEN NoSemver
     ELSE Major1(TakeDigits(Tail(v)))

IsValid(v) == ParseSemver(v).ok

\* semver.Canonical: the build suffix dropped, a short form completed.
Canonical(v) ==
  LET Of(p) ==
        IF ~p.ok THEN <<>>
        ELSE IF p.build # <<>> THEN SubSeq(v, 1, Len(v) - Len(p.build))
        ELSE IF p.short # <<>> THEN v \o p.short
        ELSE v
  IN Of(ParseSemver(v))

\* semver.Major: "v" and the major number, "" for an invalid version.
Major(v) ==
  LET Of(p) == IF ~p.ok THEN <<>> ELSE <<"v">> \o p.major
  IN Of(ParseSemver(v))

----------------------------------------------------------------------------
(* Version validation *)

GopkgIn == <<"g", "o", "p", "k", "g", ".", "i", "n", "/">>

\* ParseGopkgIn(p): gopkg.in/name.vN carries its major as N: [ok, major].
ParseGopkgIn(p) ==
  LET Of(rest, dot) ==
        LET v == From(rest, dot + 1)
        IN IF /\ dot >= 1
              /\ Len(v) >= 2 /\ v[1] = "v"
              /\ IsNum(Tail(v)) /\ \A i \in 2..Len(v) : v[i] \in Digits
           THEN [ok |-> TRUE, major |-> v]
           ELSE [ok |-> FALSE, major |-> <<>>]
  IN IF ~HasPrefix(p, GopkgIn) THEN [ok |-> FALSE, major |-> <<>>]
     ELSE Of(From(p, Len(GopkgIn)), LastIndex(From(p, Len(GopkgIn)), "."))

\* v[i] < '0' || '9' < v[i] holds of the bytes that are not digits.
isMajorVersion(v) ==
  /\ ~(Len(v) < 2 \/ v[1] # "v")
  /\ \A i \in 2..Len(v) : ~(v[i] \notin Digits)

\* moduleMajorVersion as it would be if it refused the elements v0 and v1 only.
moduleMajorVersionExact(p) ==
  LET Of(g, v) ==
        IF g.ok THEN [ok |-> TRUE, major |-> g.major]
        ELSE IF ~isMajorVersion(v) THEN [ok |-> TRUE, major |-> <<"v", "1">>]
        ELSE IF v \in {<<"v", "0">>, <<"v", "1">>} THEN [ok |-> FALSE, major |-> <<>>]
        ELSE [ok |-> TRUE, major |-> v]
  IN Of(ParseGopkgIn(p), From(p, LastIndex(p, "/") + 1))

\* moduleMajorVersion(p): [ok, major]; ok is FALSE when an error is returned.
moduleMajorVersion(p) ==
  LET Of(g, v) ==
        IF g.ok THEN [ok |-> TRUE, major |-> g.major]
        ELSE IF ~isMajorVersion(v) THEN [ok |-> TRUE, major |-> <<"v", "1">>]
        ELSE IF v[2] = "0" \/ v = <<"v", "1">> THEN [ok |-> FALSE, major |-> <<>>]
        ELSE [ok |-> TRUE, major |-> v]
  IN Of(ParseGopkgIn(p), From(p, LastIndex(p, "/") + 1))

Master == <<"m", "a", "s", "t", "e", "r">>

\* The VersionFixer values Parse is called with: nil, or a hook that resolves
\* the branch name master, keeps a valid version and fails on anything else.
FixHooks == {"nil", "resolve"}

Fixer(path, t) ==
  IF t = Master THEN [ok |-> TRUE, t |-> <<"v", "1", ".", "0", ".", "0">>]
  ELSE IF IsValid(t) THEN [ok |-> TRUE, t |-> t]
  ELSE [ok |-> FALSE, t |-> <<>>]

\* parseVersion(path, &tok, fix): [ok, v, tok], tok as it is left behind.
\* semver.Canonical(t) is the empty string exactly when !semver.IsValid(t).
parseVersion(path, tok, fx) ==
  LET Checked(ps, c) ==
        IF c # <<>> THEN [ok |-> TRUE, v |-> c, tok |-> c]
        ELSE [ok |-> FALSE, v |-> <<>>, tok |-> ps.tok]
      Fixed(ps, fr) ==
        IF ~fr.ok THEN [ok |-> FALSE, v |-> <<>>, tok |-> ps.tok]
        ELSE Checked(ps, Canonical(fr.t))
      Parsed(ps) ==
        IF ~ps.ok THEN [ok |-> FALSE, v |-> <<>>, tok |-> ps.tok]
        ELSE Fixed(ps, IF fx # "nil" THEN Fixer(path, ps.s)
                       ELSE [ok |-> TRUE, t |-> ps.s])
  IN Parsed(parseString(tok))

----------------------------------------------------------------------------
(* The File and its syntax tree *)

NoModule == [set |-> FALSE, Path |-> <<>>, Syntax |-> 0]

\* The zero Require{} / Exclude{} and the zero Replace{}.
Blank == [Path |-> <<>>, Version |-> <<>>, Syntax |-> 0]
BlankReplace ==
  [Old |-> [Path |-> <<>>, Version |-> <<>>],
   New |-> [Path |-> <<>>, Version |-> <<>>], Syntax |-> 0]

\* A top-level *Line statement and a *LineBlock statement of FileSyntax.Stmt.
LineStmt(id) == [kind |-> "Line", Token |-> <<>>, Line |-> <<id>>]
BlockStmt(header, ids) == [kind |-> "LineBlock", Token |-> header, Line |-> ids]

EmptyFile ==
  [Module |-> NoModule, Require |-> <<>>, Exclude |-> <<>>, Replace |-> <<>>,
   Stmt |-> <<>>, lines |-> <<>>, panic |-> FALSE]

Token(F, id) == F.lines[id].Token

SetToken(F, id, toks) == [F EXCEPT !.lines[id].Token = toks]

\* An assignment through a pointer into line.Token (args shares its array).
SetTok(F, id, k, tok) == [F EXCEPT !.lines[id].Token[k] = tok]

Panic(F) == [F EXCEPT !.panic = TRUE]

\* Where a line stands in the tree: <<i, 0>> for the top-level statement i,
\* <<i, j>> for line j of block i, <<0, 0>> when the tree does not hold it.
Where(F, id) ==
  IF \E i \in 1..Len(F.Stmt) : \E j \in 1..Len(F.Stmt[i].Line) : F.Stmt[i].Line[j] = id
  THEN LET i == CHOOSE i \in 1..Len(F.Stmt) :
                  \E j \in 1..Len(F.Stmt[i].Line) : F.Stmt[i].Line[j] = id
           j == CHOOSE j \in 1..Len(F.Stmt[i].Line) : F.Stmt[i].Line[j] = id
       IN IF F.Stmt[i].kind = "Line" THEN <<i, 0>> ELSE <<i, j>>
  ELSE <<0, 0>>

InTree(F, id) == id # 0 /\ Where(F, id) # <<0, 0>>

InsertAt(seq, k, e) == SubSeq(seq, 1, k) \o <<e>> \o SubSeq(seq, k + 1, Len(seq))

\* FileSyntax.addLine(hint, tokens...): the new line goes after the hint when
\* the tree holds it (inside the hint's block, without the verb, or as a
\* top-level line), and to the end of the file otherwise: [F, id].
addLine(F, hint, tokens) ==
  LET id == Len(F.lines) + 1
      w == IF hint = 0 THEN <<0, 0>> ELSE Where(F, hint)
      inBlock == w[2] # 0
      line == [Token |-> IF inBlock THEN Tail(tokens) ELSE tokens,
               InBlock |-> inBlock]
      stmts == IF w = <<0, 0>> THEN Append(F.Stmt, LineStmt(id))
               ELSE IF inBlock
                 THEN [F.Stmt EXCEPT ![w[1]].Line = InsertAt(@, w[2], id)]
               ELSE InsertAt(F.Stmt, w[1], LineStmt(id))
  IN [F |-> [F EXCEPT !.lines = Append(@, line), !.Stmt = stmts], id |-> id]

\* FileSyntax.updateLine(line, tokens...): a line of a block has no verb.
updateLine(F, id, tokens) ==
  IF id = 0 THEN Panic(F)
  ELSE SetToken(F, id, IF F.lines[id].InBlock THEN Tail(tokens) ELSE tokens)

\* FileSyntax.removeLine(line): the line stays where it is, without tokens,
\* until Cleanup.
removeLine(F, id) == IF id = 0 THEN Panic(F) ELSE SetToken(F, id, <<>>)

\* FileSyntax.Cleanup(): drops the removed lines and the blocks left empty.
SyntaxCleanup(F) ==
  LET Live(id) == Token(F, id) # <<>>
      Compact(st) == [st EXCEPT !.Line = SelectSeq(@, Live)]
      NonEmpty(st) == SelectSeq(st.Line, Live) # <<>>
      kept == SelectSeq(F.Stmt, NonEmpty)
  IN [F EXCEPT !.Stmt = [i \in 1..Len(kept) |-> Compact(kept[i])]]

----------------------------------------------------------------------------
(* Decoding: File.add and Parse *)

Arrow == <<"=", ">">>
VerbModule == <<"m", "o", "d", "u", "l", "e">>
VerbRequire == <<"r", "e", "q", "u", "i", "r", "e">>
VerbExclude == <<"e", "x", "c", "l", "u", "d", "e">>
VerbReplace == <<"r", "e", "p", "l", "a", "c", "e">>
Verbs == {VerbModule, VerbRequire, VerbExclude, VerbReplace}

\* The two values of filepath.Separator.
Separators == {"/", BS}

\* One fmt.Fprintf(errs, ...) for the line at `line`; nl tells whether the
\* format ends with a newline.
Fprintf(E, line, msg, nl) == Append(E, [line |-> line, msg |-> msg, nl |-> nl])

Mod(path, version) == [Path |-> path, Version |-> version]

\* The outcome of a case of File.add that stops at a diagnostic, and of one
\* that goes on with the module path s and the version v of its left side.
Stop(F, E) == [ok |-> FALSE, F |-> F, errs |-> E, s |-> <<>>, v |-> <<>>]
GoOn(F, E, s, v) == [ok |-> TRUE, F |-> F, errs |-> E, s |-> s, v |-> v]

\* case "module", from the parseString of args[0] on
addModulePath(F, E, l, off, ps) ==
  IF ~ps.ok THEN [F |-> F, errs |-> Fprintf(E, l, "invalid quoted string", TRUE)]
  ELSE [F |-> [SetTok(F, l, off + 1, ps.tok) EXCEPT !.Module.Path = ps.s],
        errs |-> E]

\* case "module": f.Module is set before the arguments are counted.
addModule(F, E, l, off) ==
  IF F.Module.set
    THEN [F |-> F, errs |-> Fprintf(E, l, "repeated module statement", TRUE)]
  ELSE IF Len(Token(F, l)) - off # 1
    THEN [F |-> [F EXCEPT !.Module = [set |-> TRUE, Path |-> <<>>, Syntax |-> l]],
          errs |-> Fprintf(E, l, "usage: module", TRUE)]
  ELSE addModulePath([F EXCEPT !.Module = [set |-> TRUE, Path |-> <<>>, Syntax |-> l]],
                     E, l, off, parseString(Token(F, l)[off + 1]))

\* v1 != v2 && (v1 != "v1" || v2 != "v0")
MajorMismatch(v1, v2) == v1 # v2 /\ (v1 # <<"v", "1">> \/ v2 # <<"v", "0">>)

\* The checks "require", "exclude" and "replace" make of the module path at
\* args[0] and the version at args[1], from moduleMajorVersion on.
leftMajor(F, E, l, s, v, mm) ==
  IF ~mm.ok
    THEN Stop(F, Fprintf(E, l, "module path has invalid version number", TRUE))
  ELSE IF MajorMismatch(mm.major, Major(v))
    THEN Stop(F, Fprintf(E, l, "invalid module", TRUE))
  ELSE GoOn(F, E, s, v)

\* ... from the parseVersion of args[1] on
leftVersion(F, E, l, off, s, pv) ==
  IF ~pv.ok
    THEN Stop(SetTok(F, l, off + 2, pv.tok),
              Fprintf(E, l, "invalid module version", TRUE))
  ELSE leftMajor(SetTok(F, l, off + 2, pv.tok), E, l, s, pv.v,
                 moduleMajorVersion(s))

\* ... from the parseString of args[0] on
leftPath(F, E, l, off, fx, ps) ==
  IF ~ps.ok THEN Stop(F, Fprintf(E, l, "invalid quoted string", TRUE))
  ELSE leftVersion(SetTok(F, l, off + 1, ps.tok), E, l, off, ps.s,
                   parseVersion(ps.s, Token(F, l)[off + 2], fx))

left(F, E, l, off, fx) == leftPath(F, E, l, off, fx, parseString(Token(F, l)[off + 1]))

\* case "require", "exclude": the record appended after the checks
addRecord(l, verb, r) ==
  IF ~r.ok THEN [F |-> r.F, errs |-> r.errs]
  ELSE IF verb = VerbRequire
    THEN [F |-> [r.F EXCEPT !.Require =
                   Append(@, [Path |-> r.s, Version |-> r.v, Syntax |-> l])],
          errs |-> r.errs]
  ELSE [F |-> [r.F EXCEPT !.Exclude =
                 Append(@, [Path |-> r.s, Version |-> r.v, Syntax |-> l])],
        errs |-> r.errs]

\* case "require", "exclude"
addRequireExclude(F, E, l, verb, off, fx) ==
  IF Len(Token(F, l)) - off # 2
    THEN [F |-> F, errs |-> Fprintf(E, l, "usage: require/exclude", TRUE)]
  ELSE addRecord(l, verb, left(F, E, l, off, fx))

\* case "replace", the right side with a version, from its parseVersion on
replaceNewVersion(F, E, l, off, old, ns, nv) ==
  IF ~nv.ok
    THEN [F |-> SetTok(F, l, off + 5, nv.tok),
          errs |-> Fprintf(E, l, "invalid module version", TRUE)]
  ELSE IF IsDirectoryPath(ns)
    THEN [F |-> SetTok(F, l, off + 5, nv.tok),
          errs |-> Fprintf(E, l, "replacement module directory path cannot have version", FALSE)]
  ELSE [F |-> [SetTok(F, l, off + 5, nv.tok) EXCEPT !.Replace =
                 Append(@, [Old |-> old, New |-> Mod(ns, nv.v), Syntax |-> l])],
        errs |-> E]

\* case "replace", the right side, from the parseString of args[3] on
replaceNew(F, E, l, off, fx, sep, old, ns) ==
  IF ~ns.ok THEN [F |-> F, errs |-> Fprintf(E, l, "invalid quoted string", TRUE)]
  ELSE IF Len(Token(F, l)) - off = 4 /\ ~IsDirectoryPath(ns.s)
    THEN [F |-> SetTok(F, l, off + 4, ns.tok),
          errs |-> Fprintf(E, l, "replacement module without version must be directory path", FALSE)]
  ELSE IF Len(Token(F, l)) - off = 4 /\ sep = "/" /\ Contains(ns.s, <<BS>>)
    THEN [F |-> SetTok(F, l, off + 4, ns.tok),
          errs |-> Fprintf(E, l, "replacement directory appears to be Windows path", FALSE)]
  ELSE IF Len(Token(F, l)) - off = 4
    THEN [F |-> [SetTok(F, l, off + 4, ns.tok) EXCEPT !.Replace =
                   Append(@, [Old |-> old, New |-> Mod(ns.s, <<>>), Syntax |-> l])],
          errs |-> E]
  ELSE replaceNewVersion(SetTok(F, l, off + 4, ns.tok), E, l, off, old, ns.s,
                         parseVersion(ns.s, Token(F, l)[off + 5], fx))

\* case "replace", after the checks of the left side
replaceRight(l, off, fx, sep, r) ==
  IF ~r.ok THEN [F |-> r.F, errs |-> r.errs]
  ELSE replaceNew(r.F, r.errs, l, off, fx, sep, Mod(r.s, r.v),
                  parseString(Token(r.F, l)[off + 4]))

\* case "replace"
addReplace(F, E, l, off, fx, sep) ==
  IF \/ Len(Token(F, l)) - off < 4 \/ Len(Token(F, l)) - off > 5
     \/ Token(F, l)[off + 3] # Arrow
    THEN [F |-> F, errs |-> Fprintf(E, l, "usage: replace", FALSE)]
  ELSE replaceRight(l, off, fx, sep, left(F, E, l, off, fx))

\* File.add(errs, line, verb, args, fix); args is line.Token[off:].
add(F, E, l, verb, off, fx, sep) ==
  IF verb = VerbModule THEN addModule(F, E, l, off)
  ELSE IF verb \in {VerbRequire, VerbExclude}
    THEN addRequireExclude(F, E, l, verb, off, fx)
  ELSE IF verb = VerbReplace THEN addReplace(F, E, l, off, fx, sep)
  ELSE [F |-> F, errs |-> Fprintf(E, l, "unknown directive", TRUE)]

\* A block Parse does not decode: several header tokens, or an unknown verb.
UnknownBlock(st) == Len(st.Token) > 1 \/ st.Token[1] \notin Verbs

\* One turn of Parse's loops at statement i (line j of a block): [F, errs].
\* A bare line is decoded with its first token as the verb and the rest as
\* the arguments, a line of a block with the header as the verb.
parseStep(F, E, i, j, fx, sep) ==
  LET st == F.Stmt[i]
      bare == st.kind = "Line"
      l == IF bare THEN st.Line[1] ELSE st.Line[j]
  IN IF ~bare /\ UnknownBlock(st)
       THEN [F |-> F, errs |-> Fprintf(E, st.Line[1], "unknown block type", TRUE)]
     ELSE add(F, E, l, IF bare THEN Token(F, l)[1] ELSE st.Token[1],
              IF bare THEN 1 ELSE 0, fx, sep)

\* The position after a turn as it would be if Parse walked the lines of a
\* block whatever its header.
NextPosEveryLine(F, i, j) ==
  LET st == F.Stmt[i]
  IN IF st.kind = "LineBlock" /\ j < Len(st.Line)
     THEN <<i, j + 1>> ELSE <<i + 1, 1>>

\* The position after the turn at <<i, j>>.
NextPos(F, i, j) ==
  LET st == F.Stmt[i]
  IN IF st.kind = "LineBlock" /\ ~UnknownBlock(st) /\ j < Len(st.Line)
     THEN <<i, j + 1>> ELSE <<i + 1, 1>>

\* Parse's loop from position <<i, j>> to the end of fs.Stmt: [F, errs].
RECURSIVE parseFrom(_, _, _, _, _, _)
parseFrom(F, E, i, j, fx, sep) ==
  LET Then(r, n) == parseFrom(r.F, r.errs, n[1], n[2], fx, sep)
  IN IF i > Len(F.Stmt) THEN [F |-> F, errs |-> E]
     ELSE Then(parseStep(F, E, i, j, fx, sep), NextPos(F, i, j))

\* The syntax tree of a source text: a statement is [Token, Line], Token being
\* the tokens of a bare line (Line empty) or the header of a block of lines.
RECURSIVE Build(_, _)
Build(F, src) ==
  IF src = <<>> THEN F
  ELSE
    LET s == src[1]
        n == Len(F.lines)
        bare == s.Line = <<>>
        new == IF bare THEN <<[Token |-> s.Token, InBlock |-> FALSE]>>
               ELSE [k \in 1..Len(s.Line) |-> [Token |-> s.Line[k], InBlock |-> TRUE]]
        st == IF bare THEN LineStmt(n + 1)
              ELSE BlockStmt(s.Token, [k \in 1..Len(s.Line) |-> n + k])
    IN Build([F EXCEPT !.lines = @ \o new, !.Stmt = Append(@, st)], Tail(src))

----------------------------------------------------------------------------
(* Edit operations *)

AddModuleStmt(F, path) ==
  IF ~F.Module.set
  THEN LET a == addLine(F, 0, <<VerbModule, AutoQuote(path)>>)
       IN [a.F EXCEPT !.Module = [set |-> TRUE, Path |-> path, Syntax |-> a.id]]
  ELSE updateLine([F EXCEPT !.Module.Path = path], F.Module.Syntax,
                  <<VerbModule, AutoQuote(path)>>)

\* Cleanup as it would be with the Exclude and Replace slices left alone.
CleanupRequireOnly(F) ==
  LET KeepMod(r) == r.Path # <<>>
  IN SyntaxCleanup([F EXCEPT !.Require = SelectSeq(@, KeepMod)])

Cleanup(F) ==
  LET KeepMod(r) == r.Path # <<>>
      KeepOld(r) == r.Old.Path # <<>>
  IN SyntaxCleanup([F EXCEPT !.Require = SelectSeq(@, KeepMod),
                             !.Exclude = SelectSeq(@, KeepMod),
                             !.Replace = SelectSeq(@, KeepOld)])

AddNewRequire(F, path, vers) ==
  LET a == addLine(F, 0, <<VerbRequire, AutoQuote(path), vers>>)
  IN [a.F EXCEPT !.Require = Append(@, [Path |-> path, Version |-> vers,
                                        Syntax |-> a.id])]

\* The loop of AddRequire as it would be if every record of the path were
\* updated in place, none blanked.
RECURSIVE AddRequireLoopAll(_, _, _, _, _)
AddRequireLoopAll(F, i, path, vers, need) ==
  IF F.panic \/ i > Len(F.Require) THEN [F |-> F, need |-> need]
  ELSE IF F.Require[i].Path # path
    THEN AddRequireLoopAll(F, i + 1, path, vers, need)
  ELSE AddRequireLoopAll(
         updateLine([F EXCEPT !.Require[i].Version = vers], F.Require[i].Syntax,
                    <<VerbRequire, AutoQuote(path), vers>>),
         i + 1, path, vers, FALSE)

\* The loop of AddRequire from record i on: [F, need].
RECURSIVE AddRequireLoop(_, _, _, _, _)
AddRequireLoop(F, i, path, vers, need) ==
  IF F.panic \/ i > Len(F.Require) THEN [F |-> F, need |-> need]
  ELSE
    LET r == F.Require[i]
    IN IF r.Path # path THEN AddRequireLoop(F, i + 1, path, vers, need)
       ELSE IF need
         THEN AddRequireLoop(
                updateLine([F EXCEPT !.Require[i].Version = vers], r.Syntax,
                           <<VerbRequire, AutoQuote(path), vers>>),
                i + 1, path, vers, FALSE)
       ELSE LET F1 == removeLine(F, r.Syntax)
            IN AddRequireLoop(
                 IF F1.panic THEN F1 ELSE [F1 EXCEPT !.Require[i] = Blank],
                 i + 1, path, vers, need)

\* AddRequire as it would be if it did not look for a record of the path.
AddRequireAppends(F, path, vers) == AddNewRequire(F, path, vers)

AddRequire(F, path, vers) ==
  LET r == AddRequireLoop(F, 1, path, vers, TRUE)
  IN IF r.need /\ ~r.F.panic THEN AddNewRequire(r.F, path, vers) ELSE r.F

RECURSIVE DropRequireLoop(_, _, _)
DropRequireLoop(F, i, path) ==
  IF F.panic \/ i > Len(F.Require) THEN F
  ELSE IF F.Require[i].Path # path THEN DropRequireLoop(F, i + 1, path)
  ELSE LET F1 == removeLine(F, F.Require[i].Syntax)
       IN DropRequireLoop(
            IF F1.panic THEN F1 ELSE [F1 EXCEPT !.Require[i] = Blank],
            i + 1, path)

\* DropRequire as it would be if it took the records out of the slice.
DropRequireShifts(F, path) ==
  LET Kept(r) == r.Path # path
  IN [DropRequireLoop(F, 1, path) EXCEPT !.Require = SelectSeq(F.Require, Kept)]

DropRequire(F, path) == DropRequireLoop(F, 1, path)

\* AddExclude as it would be without the search for the pair.
AddExcludeAlways(F, path, vers) ==
  LET a == addLine(F, 0, <<VerbExclude, AutoQuote(path), vers>>)
  IN [a.F EXCEPT !.Exclude = Append(@, [Path |-> path, Version |-> vers,
                                        Syntax |-> a.id])]

AddExclude(F, path, vers) ==
  LET X == F.Exclude
      found == \E i \in 1..Len(X) : X[i].Path = path /\ X[i].Version = vers
      same == {i \in 1..Len(X) : X[i].Path = path}
      hint == IF same = {} THEN 0
              ELSE X[CHOOSE i \in same : \A k \in same : k <= i].Syntax
      a == addLine(F, hint, <<VerbExclude, AutoQuote(path), vers>>)
  IN IF found THEN F
     ELSE [a.F EXCEPT !.Exclude = Append(@, [Path |-> path, Version |-> vers,
                                             Syntax |-> a.id])]

\* The loop of DropExclude as it would be if it compared the paths only.
RECURSIVE DropExcludeLoopByPath(_, _, _, _)
DropExcludeLoopByPath(F, i, path, vers) ==
  IF F.panic \/ i > Len(F.Exclude) THEN F
  ELSE IF F.Exclude[i].Path # path
    THEN DropExcludeLoopByPath(F, i + 1, path, vers)
  ELSE DropExcludeLoopByPath(
         [removeLine(F, F.Exclude[i].Syntax) EXCEPT !.Exclude[i] = Blank],
         i + 1, path, vers)

RECURSIVE DropExcludeLoop(_, _, _, _)
DropExcludeLoop(F, i, path, vers) ==
  IF F.panic \/ i > Len(F.Exclude) THEN F
  ELSE IF ~(F.Exclude[i].Path = path /\ F.Exclude[i].Version = vers)
    THEN DropExcludeLoop(F, i + 1, path, vers)
  ELSE LET F1 == removeLine(F, F.Exclude[i].Syntax)
       IN DropExcludeLoop(
            IF F1.panic THEN F1 ELSE [F1 EXCEPT !.Exclude[i] = Blank],
            i + 1, path, vers)

DropExclude(F, path, vers) == DropExcludeLoop(F, 1, path, vers)

\* The token list AddReplace builds.
ReplaceTokens(old, new) ==
  <<VerbReplace, AutoQuote(old.Path), old.Version, Arrow, AutoQuote(new.Path)>>
    \o (IF new.Version # <<>> THEN <<new.Version>> ELSE <<>>)

\* The loop of AddReplace as it would be if it took every record of the old
\* path for a match, whatever its version.
RECURSIVE AddReplaceLoopByPath(_, _, _, _, _, _)
AddReplaceLoopByPath(F, i, old, new, need, hint) ==
  IF F.panic \/ i > Len(F.Replace) THEN [F |-> F, need |-> need, hint |-> hint]
  ELSE
    LET r == F.Replace[i]
    IN IF r.Old.Path = old.Path /\ need
         THEN AddReplaceLoopByPath(
                updateLine([F EXCEPT !.Replace[i].Old = old, !.Replace[i].New = new],
                           r.Syntax, ReplaceTokens(old, new)),
                i + 1, old, new, FALSE, hint)
       ELSE IF r.Old.Path = old.Path
         THEN AddReplaceLoopByPath(
                [removeLine(F, r.Syntax) EXCEPT !.Replace[i] = BlankReplace],
                i + 1, old, new, need, hint)
       ELSE AddReplaceLoopByPath(F, i + 1, old, new, need, hint)

\* The loop of AddReplace from record i on: [F, need, hint].
RECURSIVE AddReplaceLoop(_, _, _, _, _, _)
AddReplaceLoop(F, i, old, new, need, hint) ==
  IF F.panic \/ i > Len(F.Replace) THEN [F |-> F, need |-> need, hint |-> hint]
  ELSE
    LET r == F.Replace[i]
    IN IF r.Old = old /\ need
         THEN AddReplaceLoop(
                updateLine([F EXCEPT !.Replace[i].New = new], r.Syntax,
                           ReplaceTokens(old, new)),
                i + 1, old, new, FALSE, hint)
       ELSE IF r.Old = old
         THEN LET F1 == removeLine(F, r.Syntax)
                  F2 == IF F1.panic THEN F1
                        ELSE [F1 EXCEPT !.Replace[i] = BlankReplace]
              IN AddReplaceLoop(
                   F2, i + 1, old, new, need,
                   IF ~F2.panic /\ F2.Replace[i].Old.Path = old.Path
                   THEN F2.Replace[i].Syntax ELSE hint)
       ELSE AddReplaceLoop(F, i + 1, old, new, need,
                           IF r.Old.Path = old.Path THEN r.Syntax ELSE hint)

AddReplace(F, oldPath, oldVers, newPath, newVers) ==
  LET old == Mod(oldPath, oldVers)
      new == Mod(newPath, newVers)
      r == AddReplaceLoop(F, 1, old, new, TRUE, 0)
      a == addLine(r.F, r.hint, ReplaceTokens(old, new))
  IN IF r.need /\ ~r.F.panic
     THEN [a.F EXCEPT !.Replace = Append(@, [Old |-> old, New |-> new,
                                             Syntax |-> a.id])]
     ELSE r.F

RECURSIVE DropReplaceLoop(_, _, _, _)
DropReplaceLoop(F, i, oldPath, oldVers) ==
  IF F.panic \/ i > Len(F.Replace) THEN F
  ELSE IF ~(F.Replace[i].Old.Path = oldPath /\ F.Replace[i].Old.Version = oldVers)
    THEN DropReplaceLoop(F, i + 1, oldPath, oldVers)
  ELSE LET F1 == removeLine(F, F.Replace[i].Syntax)
       IN DropReplaceLoop(
            IF F1.panic THEN F1 ELSE [F1 EXCEPT !.Replace[i] = BlankReplace],
            i + 1, oldPath, oldVers)

DropReplace(F, oldPath, oldVers) == DropReplaceLoop(F, 1, oldPath, oldVers)

----------------------------------------------------------------------------
(* Normalisation: removeDups and SortBlocks *)

\* The loop over Exclude as it would be if it went from the last record
\* down, i counting the records done: later ones would win.
RECURSIVE KillExcludeBackward(_, _, _, _)
KillExcludeBackward(X, i, have, kill) ==
  IF i > Len(X) THEN kill
  ELSE LET x == X[Len(X) - i + 1]
           m == Mod(x.Path, x.Version)
       IN IF m \in have
          THEN KillExcludeBackward(X, i + 1, have, kill \cup {x.Syntax})
          ELSE KillExcludeBackward(X, i + 1, have \cup {m}, kill)

\* The first loop of removeDups: the lines of the Exclude records whose
\* module an earlier record already has, scanning from record i on.
RECURSIVE KillExclude(_, _, _, _)
KillExclude(X, i, have, kill) ==
  IF i > Len(X) THEN kill
  ELSE LET m == Mod(X[i].Path, X[i].Version)
       IN IF m \in have THEN KillExclude(X, i + 1, have, kill \cup {X[i].Syntax})
          ELSE KillExclude(X, i + 1, have \cup {m}, kill)

\* The loop over Replace as it would be if it went from the first record up,
\* i counting the records left: earlier ones would win.
RECURSIVE KillReplaceForward(_, _, _, _)
KillReplaceForward(R, i, have, kill) ==
  IF i < 1 THEN kill
  ELSE IF R[Len(R) - i + 1].Old \in have
    THEN KillReplaceForward(R, i - 1, have, kill \cup {R[Len(R) - i + 1].Syntax})
  ELSE KillReplaceForward(R, i - 1, have \cup {R[Len(R) - i + 1].Old}, kill)

\* The loop over Replace, from the last record down: later ones win.
RECURSIVE KillReplace(_, _, _, _)
KillReplace(R, i, have, kill) ==
  IF i < 1 THEN kill
  ELSE IF R[i].Old \in have
    THEN KillReplace(R, i - 1, have, kill \cup {R[i].Syntax})
  ELSE KillReplace(R, i - 1, have \cup {R[i].Old}, kill)

removeDups(F) ==
  LET kill1 == KillExclude(F.Exclude, 1, {}, {})
      KeepX(x) == x.Syntax \notin kill1
      kill == KillReplace(F.Replace, Len(F.Replace), {}, kill1)
      KeepR(x) == x.Syntax \notin kill
      KeepLine(id) == id \notin kill
      Rest(st) == [st EXCEPT !.Line = SelectSeq(@, KeepLine)]
      KeepStmt(st) == SelectSeq(st.Line, KeepLine) # <<>>
      kept == SelectSeq(F.Stmt, KeepStmt)
  IN [F EXCEPT !.Exclude = SelectSeq(@, KeepX),
               !.Replace = SelectSeq(@, KeepR),
               !.Stmt = [i \in 1..Len(kept) |-> Rest(kept[i])]]

\* The less function as it would be with the tokens compared the other way.
RECURSIVE LessFromDescending(_, _, _)
LessFromDescending(ti, tj, k) ==
  IF k <= Len(ti) /\ k <= Len(tj)
  THEN IF ti[k] # tj[k] THEN StrLess(tj[k], ti[k])
       ELSE LessFromDescending(ti, tj, k + 1)
  ELSE Len(ti) < Len(tj)

\* The less function SortBlocks hands to sort.Slice, on two token lists.
RECURSIVE LessFrom(_, _, _)
LessFrom(ti, tj, k) ==
  IF k <= Len(ti) /\ k <= Len(tj)
  THEN IF ti[k] # tj[k] THEN StrLess(ti[k], tj[k]) ELSE LessFrom(ti, tj, k + 1)
  ELSE Len(ti) < Len(tj)

Less(F, a, b) == LessFrom(Token(F, a), Token(F, b), 1)

\* sort.Slice on a slice of fewer than 12 elements is an insertion sort: each
\* element moves left while it is less than its left neighbour.
RECURSIVE InsertLine(_, _, _)
InsertLine(F, sorted, x) ==
  IF sorted # <<>> /\ Less(F, x, sorted[Len(sorted)])
  THEN Append(InsertLine(F, SubSeq(sorted, 1, Len(sorted) - 1), x),
              sorted[Len(sorted)])
  ELSE Append(sorted, x)

RECURSIVE SortLines(_, _)
SortLines(F, ids) ==
  IF ids = <<>> THEN <<>>
  ELSE InsertLine(F, SortLines(F, SubSeq(ids, 1, Len(ids) - 1)), ids[Len(ids)])

SortBlocks(F) ==
  LET G == removeDups(F)
  IN [G EXCEPT !.Stmt =
        [i \in 1..Len(G.Stmt) |->
           IF G.Stmt[i].kind = "LineBlock"
           THEN [G.Stmt[i] EXCEPT !.Line = SortLines(G, @)]
           ELSE G.Stmt[i]]]

----------------------------------------------------------------------------
(* SetRequire *)

NoNeed == [p \in {} |-> <<>>]

\* need[p], the zero string for a missing key.
Get(need, p) == IF p \in DOMAIN need THEN need[p] ELSE <<>>

Put(need, p, v) == [q \in DOMAIN need \cup {p} |-> IF q = p THEN v ELSE need[q]]

Delete(need, p) == [q \in DOMAIN need \ {p} |-> need[q]]

\* need := the map of req, a later entry overwriting an earlier one.
RECURSIVE NeedOf(_)
NeedOf(req) ==
  IF req = <<>> THEN NoNeed
  ELSE Put(NeedOf(SubSeq(req, 1, Len(req) - 1)),
           req[Len(req)].Path, req[Len(req)].Version)

\* The loop over the lines of a require block from line j on:
\* [F, need, newLines].
RECURSIVE SetRequireLines(_, _, _, _, _)
SetRequireLines(F, ids, j, need, newLines) ==
  IF F.panic \/ j > Len(ids) THEN [F |-> F, need |-> need, newLines |-> newLines]
  ELSE
    LET id == ids[j]
        tok == Token(F, id)
        ps == parseString(tok[1])
        F1 == SetTok(F, id, 1, ps.tok)
    IN IF Len(tok) < 1 THEN [F |-> Panic(F), need |-> need, newLines |-> newLines]
       ELSE IF ps.ok /\ Get(need, ps.s) # <<>>
         THEN IF Len(tok) < 2
              THEN [F |-> Panic(F1), need |-> need, newLines |-> newLines]
              ELSE SetRequireLines(SetTok(F1, id, 2, need[ps.s]), ids, j + 1,
                                   Delete(need, ps.s), Append(newLines, id))
       ELSE SetRequireLines(F1, ids, j + 1, need, newLines)

\* The loop over f.Syntax.Stmt from statement i on: [F, need, newStmts].
RECURSIVE SetRequireStmts(_, _, _, _)
SetRequireStmts(F, i, need, newStmts) ==
  IF F.panic \/ i > Len(F.Stmt) THEN [F |-> F, need |-> need, newStmts |-> newStmts]
  ELSE
    LET st == F.Stmt[i]
    IN IF st.kind = "LineBlock"
       THEN IF Len(st.Token) > 0 /\ st.Token[1] = VerbRequire
            THEN LET r == SetRequireLines(F, st.Line, 1, need, <<>>)
                 IN IF r.F.panic
                      THEN [F |-> r.F, need |-> r.need, newStmts |-> newStmts]
                    ELSE IF r.newLines = <<>>
                      THEN SetRequireStmts(r.F, i + 1, r.need, newStmts)
                    ELSE SetRequireStmts(
                           [r.F EXCEPT !.Stmt[i].Line = r.newLines], i + 1, r.need,
                           Append(newStmts, [st EXCEPT !.Line = r.newLines]))
            ELSE SetRequireStmts(F, i + 1, need, Append(newStmts, st))
       ELSE
         LET id == st.Line[1]
             tok == Token(F, id)
             ps == parseString(tok[2])
             F1 == SetTok(F, id, 2, ps.tok)
         IN IF Len(tok) > 0 /\ tok[1] = VerbRequire
            THEN IF Len(tok) < 2
                   THEN [F |-> Panic(F), need |-> need, newStmts |-> newStmts]
                 ELSE IF ps.ok /\ Get(need, ps.s) # <<>>
                   THEN IF Len(tok) < 3
                        THEN [F |-> Panic(F1), need |-> need, newStmts |-> newStmts]
                        ELSE SetRequireStmts(SetTok(F1, id, 3, need[ps.s]), i + 1,
                                             Delete(need, ps.s), Append(newStmts, st))
                 ELSE SetRequireStmts(F1, i + 1, need, newStmts)
            ELSE SetRequireStmts(F, i + 1, need, Append(newStmts, st))

\* for path, vers := range need { f.AddNewRequire(path, vers) }, the map being
\* ranged over in the order of ord.
RECURSIVE AddNeeded(_, _, _)
AddNeeded(F, need, ord) ==
  IF ord = <<>> THEN F
  ELSE AddNeeded(IF ord[1] \in DOMAIN need
                 THEN AddNewRequire(F, ord[1], need[ord[1]]) ELSE F,
                 need, Tail(ord))

\* SetRequire(req); ord lists every path once and stands for the order in
\* which the range over the map need yields its keys.
SetRequire(F, req, ord) ==
  LET need == NeedOf(req)
      F1 == [F EXCEPT !.Require =
               [i \in 1..Len(F.Require) |->
                  IF F.Require[i].Path \in DOMAIN need
                  THEN [F.Require[i] EXCEPT !.Version = need[F.Require[i].Path]]
                  ELSE F.Require[i]]]
      r == SetRequireStmts(F1, 1, need, <<>>)
  IN IF r.F.panic THEN r.F
     ELSE SortBlocks(AddNeeded([r.F EXCEPT !.Stmt = r.newStmts], r.need, ord))

----------------------------------------------------------------------------
(* Inputs of the edit operations *)

PathA == <<"a">>
PathB == <<"b", " ", "c">>
PathC == <<"c">>
DirD == <<".", "/", "d">>
V1 == <<"v", "1", ".", "0", ".", "0">>
V2 == <<"v", "1", ".", "1", ".", "0">>

Paths == {PathA, PathB}
Versions == {V1, V2}

\* The replacements AddReplace is called with: a directory, a module version.
NewMods == {Mod(DirD, <<>>), Mod(PathC, V1)}

\* The lists SetRequire is called with.
ReqLists ==
  {<<>>, <<Mod(PathA, V2)>>, <<Mod(PathA, V1), Mod(PathA, V2)>>,
   <<Mod(PathB, V1)>>, <<Mod(PathB, V2), Mod(PathA, V1)>>}

\* The orders in which a range over a map of paths can yield its keys.
KeyOrders == {<<PathA, PathB>>, <<PathB, PathA>>}

Bare(toks) == [Token |-> toks, Line |-> <<>>]
Block(verb, ls) == [Token |-> <<verb>>, Line |-> ls]

\* The go.mod files the edits start from.
InitFiles ==
  { <<>>,
    << Bare(<<VerbModule, <<"m">>>>),
       Bare(<<VerbRequire, PathA, V1>>),
       Bare(<<VerbRequire, PathA, V2>>),
       Bare(<<VerbReplace, PathA, V1, Arrow, DirD>>),
       Bare(<<VerbReplace, PathA, V1, Arrow, PathC, V1>>) >>,
    << Block(VerbRequire, << <<Quote(PathB), V1>>, <<PathA, V1>> >>),
       Bare(<<VerbExclude, PathA, V1>>),
       Bare(<<VerbExclude, PathA, V1>>) >>,
    << Block(VerbRequire, << <<PathA, V2>>, <<PathA, V1>> >>),
       Block(VerbExclude, << <<PathA, V2>>, <<PathA, V1>>, <<PathA, V2>> >>) >>,
    << Block(VerbReplace, << <<PathA, V2, Arrow, DirD>>,
                             <<PathA, V1, Arrow, DirD>>,
                             <<PathA, V2, Arrow, PathC, V1>> >>),
       Bare(<<VerbRequire, Quote(PathB), V2>>) >> }

----------------------------------------------------------------------------
(* The edit operations as steps *)

\* A call of an edit operation that leaves the File F.
Call(op, args, F) ==
  /\ pc = "edit"
  /\ ~f.panic
  /\ nops < MaxOps
  /\ f' = F
  /\ Len(f'.lines) <= MaxLines
  /\ last' = [op |-> op, args |-> args,
              twice |-> last.op = op /\ last.args = args]
  /\ pre' = f
  /\ nops' = nops + 1
  /\ UNCHANGED <<errs, fix, Separator, pc, pos>>

DoAddModuleStmt ==
  \E p \in Paths : Call("AddModuleStmt", <<p>>, AddModuleStmt(f, p))

DoAddRequire ==
  \E p \in Paths, v \in Versions :
    Call("AddRequire", <<p, v>>, AddRequire(f, p, v))

DoSetRequire ==
  \E req \in ReqLists, ord \in KeyOrders :
    Call("SetRequire", <<req>>, SetRequire(f, req, ord))

DoDropRequire ==
  \E p \in Paths : Call("DropRequire", <<p>>, DropRequire(f, p))

DoAddExclude ==
  \E p \in Paths, v \in Versions :
    Call("AddExclude", <<p, v>>, AddExclude(f, p, v))

DoDropExclude ==
  \E p \in Paths, v \in Versions :
    Call("DropExclude", <<p, v>>, DropExclude(f, p, v))

DoAddReplace ==
  \E p \in Paths, v \in Versions, n \in NewMods :
    Call("AddReplace", <<p, v, n.Path, n.Version>>,
         AddReplace(f, p, v, n.Path, n.Version))

DoDropReplace ==
  \E p \in Paths, v \in Versions :
    Call("DropReplace", <<p, v>>, DropReplace(f, p, v))

DoSortBlocks == Call("SortBlocks", <<>>, SortBlocks(f))

DoCleanup == Call("Cleanup", <<>>, Cleanup(f))

\* A go.mod file that needs the fix hook: a branch name for a version, build
\* metadata that the canonical form drops, and a path that is quoted.
HookedFile ==
  << Bare(<<VerbRequire, PathA, Master>>),
     Bare(<<VerbExclude, PathA, V1 \o <<"+", "b">>>>),
     Bare(<<VerbReplace, Quote(PathB), V2, Arrow, PathC, Master>>) >>

\* The Parse calls the edits start from: the source text and the fix hook.
InitCalls ==
  {[src |-> src, fix |-> "nil"] : src \in InitFiles}
    \cup {[src |-> HookedFile, fix |-> "resolve"]}

\* The File a successful Parse returns for one of InitCalls.
Init ==
  \E c \in InitCalls :
    LET r == parseFrom(Build(EmptyFile, c.src), <<>>, 1, 1, c.fix, "/")
    IN /\ f = r.F
       /\ errs = r.errs
       /\ errs = <<>>
       /\ fix = c.fix
       /\ Separator = "/"
       /\ pc = "edit"
       /\ pos = <<Len(f.Stmt) + 1, 1>>
       /\ last = [op |-> "Parse", args |-> <<>>, twice |-> FALSE]
       /\ pre = f
       /\ nops = 0

Next ==
  \/ DoAddModuleStmt
  \/ DoAddRequire
  \/ DoSetRequire
  \/ DoDropRequire
  \/ DoAddExclude
  \/ DoDropExclude
  \/ DoAddReplace
  \/ DoDropReplace
  \/ DoSortBlocks
  \/ DoCleanup

Spec == Init /\ [][Next]_vars

----------------------------------------------------------------------------
(* Parse, one File.add call (or one undecoded block) per step *)

PathX == <<"x">>
PathXv2 == <<"x", "/", "v", "2">>
PathXv1 == <<"x", "/", "v", "1">>
PathXv0 == <<"x", "/", "v", "0">>
PathXv01 == <<"x", "/", "v", "0", "1">>
PathXv10 == <<"x", "/", "v", "1", "0">>
PathXv == <<"x", "/", "v">>
GopkgY1 == GopkgIn \o <<"y", ".", "v", "1">>
GopkgY2 == GopkgIn \o <<"y", ".", "v", "2">>
V090 == <<"v", "0", ".", "9", ".", "0">>
V190 == <<"v", "1", ".", "9", ".", "0">>
V200 == <<"v", "2", ".", "0", ".", "0">>
V1000 == <<"v", "1", "0", ".", "0", ".", "0">>
V2Short == <<"v", "2">>
V1Build == V1 \o <<"+", "b">>
NotAVersion == <<"1", ".", "0">>

DecodePaths == {PathX, PathXv2, PathXv1, PathXv0, PathXv01, PathXv10, PathXv,
                GopkgY1, GopkgY2, Quote(PathB), <<"x", "'">>}
DecodeVersions ==
  {V090, V1, V190, V200, V1000, V2Short, V1Build, NotAVersion, Master}

\* The right-hand sides of the replace statements decoded.
RightPaths ==
  {<<".", "/", "l">>, <<".", ".", "/", "l">>, <<"/", "l">>, <<".", BS, "l">>,
   <<".", ".", BS, "l">>, <<BS, "l">>, <<"C", ":", BS, "l">>, <<"c", ":", "/", "l">>,
   <<".", "/", "l", BS, "m">>, <<"y">>, <<"y", "/", "l">>, <<"y", "'">>,
   <<".", "/", "l", "'">>, Quote(<<".", "/", "l", " ", "m">>), Quote(PathB)}
RightVersions == {V1, NotAVersion, Master}

RequireStmts ==
  {Bare(<<verb, p, v>>) : verb \in {VerbRequire, VerbExclude},
                          p \in DecodePaths, v \in DecodeVersions}
    \cup {Bare(<<VerbReplace, p, v, Arrow, DirD>>) :
            p \in DecodePaths, v \in DecodeVersions}

ReplaceStmts ==
  {Bare(<<VerbReplace, PathX, V1, Arrow, n>>) : n \in RightPaths}
    \cup {Bare(<<VerbReplace, PathX, V1, Arrow, n, v>>) :
            n \in RightPaths, v \in RightVersions}
    \cup {Bare(<<VerbReplace, PathX, V1, <<"=">>, DirD>>),
          Bare(<<VerbReplace, PathX, V1, Arrow>>),
          Bare(<<VerbReplace, PathX, V1, DirD, Arrow, PathC, V1>>),
          Bare(<<VerbReplace, PathX, V1, Arrow, PathC, V1, V1>>)}

\* Statements that are put together into files of two statements.
MixedStmts ==
  {Bare(<<VerbModule, <<"m">>>>), Bare(<<VerbModule, <<"m">>, V1>>),
   Bare(<<VerbModule, <<"m", "'">>>>), Bare(<<VerbModule>>),
   Bare(<<<<"u", "s", "e">>, PathX>>),
   Bare(<<VerbRequire, PathX, V1>>), Bare(<<VerbRequire, PathX>>),
   Bare(<<VerbRequire, PathXv2, V1>>),
   Bare(<<VerbReplace, PathX, V1, Arrow, PathC>>),
   Bare(<<VerbReplace, PathX, V1, Arrow, DirD, V1>>),
   Bare(<<VerbReplace, PathX, V1, Arrow, <<".", BS, "l">>>>),
   Bare(<<VerbReplace, PathX, Arrow, DirD>>),
   Block(VerbRequire, << <<PathX, V1>>, <<PathXv2, V1>>, <<PathX, V1Build>> >>),
   Block(VerbExclude, << <<PathX, NotAVersion>>, <<PathX, V090>> >>),
   Block(VerbModule, << <<<<"m">>>> >>),
   Block(<<"u", "s", "e">>, << <<PathX, V1>>, <<PathX>> >>),
   [Token |-> <<VerbRequire, PathX>>, Line |-> << <<PathX, V1>> >>]}

\* The source texts Parse is called with.
ParseInputs ==
  {<<s>> : s \in RequireStmts \cup ReplaceStmts \cup MixedStmts}
    \cup {<<s, t>> : s \in MixedStmts, t \in MixedStmts}

InitParse ==
  \E src \in ParseInputs, fx \in FixHooks, s \in Separators :
    /\ f = Build(EmptyFile, src)
    /\ errs = <<>>
    /\ fix = fx
    /\ Separator = s
    /\ pc = "parse"
    /\ pos = <<1, 1>>
    /\ last = [op |-> "parse", args |-> <<>>, twice |-> FALSE]
    /\ pre = f
    /\ nops = 0

\* The turn of Parse's loop at pos; args of last: the line and the number of
\* diagnostics before the turn.
Turn(op, l) ==
  LET r == parseStep(f, errs, pos[1], pos[2], fix, Separator)
  IN /\ f' = r.F
     /\ errs' = r.errs
     /\ pos' = NextPos(f, pos[1], pos[2])
     /\ last' = [op |-> op, args |-> <<l, Len(errs)>>, twice |-> FALSE]
     /\ pre' = f
     /\ UNCHANGED <<fix, Separator, pc, nops>>

\* case *Line: f.add(&errs, x, x.Token[0], x.Token[1:], fix)
ParseLine ==
  /\ pc = "parse" /\ pos[1] <= Len(f.Stmt)
  /\ f.Stmt[pos[1]].kind = "Line"
  /\ Turn("add", f.Stmt[pos[1]].Line[1])

\* case *LineBlock with an unknown header: one diagnostic, no line decoded
ParseUnknownBlock ==
  /\ pc = "parse" /\ pos[1] <= Len(f.Stmt)
  /\ f.Stmt[pos[1]].kind = "LineBlock" /\ UnknownBlock(f.Stmt[pos[1]])
  /\ Turn("block", f.Stmt[pos[1]].Line[1])

\* for _, l := range x.Line { f.add(&errs, l, x.Token[0], l.Token, fix) }
ParseBlockLine ==
  /\ pc = "parse" /\ pos[1] <= Len(f.Stmt)
  /\ f.Stmt[pos[1]].kind = "LineBlock" /\ ~UnknownBlock(f.Stmt[pos[1]])
  /\ Turn("add", f.Stmt[pos[1]].Line[pos[2]])

\* if errs.Len() > 0 { return nil, errors.New(...) }
ParseReturnError ==
  /\ pc = "parse" /\ pos[1] > Len(f.Stmt)
  /\ errs # <<>>
  /\ pc' = "failed"
  /\ last' = [op |-> "return", args |-> <<>>, twice |-> FALSE]
  /\ UNCHANGED <<f, errs, fix, Separator, pos, pre, nops>>

\* return f, nil
ParseReturnFile ==
  /\ pc = "parse" /\ pos[1] > Len(f.Stmt)
  /\ errs = <<>>
  /\ pc' = "parsed"
  /\ last' = [op |-> "return", args |-> <<>>, twice |-> FALSE]
  /\ UNCHANGED <<f, errs, fix, Separator, pos, pre, nops>>

NextParse ==
  \/ ParseLine
  \/ ParseUnknownBlock
  \/ ParseBlockLine
  \/ ParseReturnError
  \/ ParseReturnFile

SpecParse == InitParse /\ [][NextParse]_vars

----------------------------------------------------------------------------
(* Properties of the edit operations, under Spec *)

\* The lines the tree holds, and those of them that have not been removed.
TreeIds(F) ==
  UNION {{F.Stmt[i].Line[j] : j \in 1..Len(F.Stmt[i].Line)} : i \in 1..Len(F.Stmt)}

LiveIds(F) == {id \in TreeIds(F) : Token(F, id) # <<>>}

\* The statement of the tree that holds the line id.
StmtOf(F, id) ==
  F.Stmt[CHOOSE i \in 1..Len(F.Stmt) :
           \E j \in 1..Len(F.Stmt[i].Line) : F.Stmt[i].Line[j] = id]

\* The verb and the arguments of a line that has its tokens.
VerbOf(F, id) ==
  IF F.lines[id].InBlock THEN StmtOf(F, id).Token[1] ELSE Token(F, id)[1]

ArgsOf(F, id) == IF F.lines[id].InBlock THEN Token(F, id) ELSE Tail(Token(F, id))

\* The lines of the tree that state verb, bare or inside a block.
LinesOf(F, verb) == {id \in LiveIds(F) : VerbOf(F, id) = verb}

\* The module path a require line names, and its version.
PathOf(F, id) == parseString(ArgsOf(F, id)[1]).s
VersOf(F, id) == ArgsOf(F, id)[2]

\* The records of a slice that are not tombstoned.
LiveMods(recs) == {i \in 1..Len(recs) : recs[i].Path # <<>>}
LiveReplaces(recs) == {i \in 1..Len(recs) : recs[i].Old.Path # <<>>}

\* C1: after any sequence of edit operations on a parsed File, every Require,
\* Exclude and Replace record that is not tombstoned refers to a line that the
\* syntax tree still holds.
C1_LiveRecordsHaveLines ==
  /\ \A i \in LiveMods(f.Require) : f.Require[i].Syntax \in TreeIds(f)
  /\ \A i \in LiveMods(f.Exclude) : f.Exclude[i].Syntax \in TreeIds(f)
  /\ \A i \in LiveReplaces(f.Replace) : f.Replace[i].Syntax \in TreeIds(f)

\* The mapping SetRequire is asked for: the last version a list gives a path.
Desired(req) ==
  [p \in {req[i].Path : i \in DOMAIN req} |->
     req[CHOOSE i \in DOMAIN req :
           req[i].Path = p /\ \A k \in DOMAIN req : req[k].Path = p => k <= i].Version]

\* What SetRequire(desired) is to leave in the tree: one require line for each
\* desired path, at the desired version, none for another path, and no block
\* without lines.
SetRequireTree(F, desired) ==
  /\ \A p \in DOMAIN desired :
       /\ Cardinality({id \in LinesOf(F, VerbRequire) : PathOf(F, id) = p}) = 1
       /\ \A id \in LinesOf(F, VerbRequire) :
            PathOf(F, id) = p => VersOf(F, id) = desired[p]
  /\ \A id \in LinesOf(F, VerbRequire) : PathOf(F, id) \in DOMAIN desired
  /\ \A i \in 1..Len(F.Stmt) : F.Stmt[i].Line # <<>>

\* C2: from every File state and for every desired mapping, SetRequire(desired)
\* leaves exactly one require line for each desired path, at the desired
\* version, no require line for any other path, and no empty require block.
C2_SetRequireLeavesDesired ==
  last.op = "SetRequire" =>
    ~f.panic /\ SetRequireTree(f, Desired(last.args[1]))

\* The same of the calls of SetRequire that run to their end.
SetRequireCompleted ==
  (last.op = "SetRequire" /\ ~f.panic) => SetRequireTree(f, Desired(last.args[1]))

\* The last operation called once more, with the same arguments, on the File F;
\* ord is the order in which SetRequire's range over its map yields the keys.
Again(F, ord) ==
  CASE last.op = "AddModuleStmt" -> AddModuleStmt(F, last.args[1])
    [] last.op = "AddRequire" -> AddRequire(F, last.args[1], last.args[2])
    [] last.op = "SetRequire" -> SetRequire(F, last.args[1], ord)
    [] last.op = "DropRequire" -> DropRequire(F, last.args[1])
    [] last.op = "AddExclude" -> AddExclude(F, last.args[1], last.args[2])
    [] last.op = "DropExclude" -> DropExclude(F, last.args[1], last.args[2])
    [] last.op = "AddReplace" ->
         AddReplace(F, last.args[1], last.args[2], last.args[3], last.args[4])
    [] last.op = "DropReplace" -> DropReplace(F, last.args[1], last.args[2])
    [] last.op = "SortBlocks" -> SortBlocks(F)
    [] last.op = "Cleanup" -> Cleanup(F)
    [] OTHER -> F

Matching(recs, p) == {i \in 1..Len(recs) : recs[i].Path = p}
First(S) == CHOOSE i \in S : \A k \in S : i <= k

\* C4: after AddRequire(path, version), from any File state, exactly one Require
\* record that is not tombstoned has the path; it has the version; it is the
\* first record that had the path before, updated in place together with its
\* line, or a record appended with a new line when none had it; every further
\* record that had the path is blanked and its line removed.
C4_AddRequire ==
  last.op = "AddRequire" =>
    LET p == last.args[1]
        v == last.args[2]
        was == Matching(pre.Require, p)
        now == Matching(f.Require, p)
        n == Len(f.Require)
    IN /\ ~f.panic
       /\ Cardinality(now) = 1
       /\ \A i \in now : /\ f.Require[i].Version = v
                         /\ ArgsOf(f, f.Require[i].Syntax) = <<AutoQuote(p), v>>
       /\ was # {} =>
            /\ now = {First(was)}
            /\ n = Len(pre.Require)
            /\ f.Require[First(was)].Syntax = pre.Require[First(was)].Syntax
            /\ f.Stmt = pre.Stmt
            /\ \A j \in was \ {First(was)} :
                 f.Require[j] = Blank /\ Token(f, pre.Require[j].Syntax) = <<>>
       /\ was = {} =>
            /\ now = {n}
            /\ n = Len(pre.Require) + 1
            /\ f.Require[n].Syntax \in LiveIds(f) \ TreeIds(pre)
            /\ VerbOf(f, f.Require[n].Syntax) = VerbRequire
       /\ \A j \in 1..Len(pre.Require) : j \notin was => f.Require[j] = pre.Require[j]

C4_Witness ==
  /\ last.op = "AddRequire" /\ ~f.panic
  /\ Cardinality(Matching(pre.Require, last.args[1])) = 2
  /\ pre.Require[First(Matching(pre.Require, last.args[1]))].Version # last.args[2]

\* The Exclude records of F for the pair (p, v).
ExcludesOf(F, p, v) ==
  {i \in 1..Len(F.Exclude) : F.Exclude[i].Path = p /\ F.Exclude[i].Version = v}

\* C5, as claimed: after AddExclude(p, v) has been called twice with the same
\* arguments, from any File state, exactly one Exclude record for (p, v)
\* exists; a call made when the pair is present changes nothing.
C5_Original ==
  last.op = "AddExclude" =>
    /\ last.twice =>
         Cardinality(ExcludesOf(f, last.args[1], last.args[2])) = 1
    /\ ExcludesOf(pre, last.args[1], last.args[2]) # {} => f = pre

\* C5, amended: a call of AddExclude(p, v) from a File state that holds at most
\* one Exclude record for (p, v) leaves exactly one, so that two calls with the
\* same arguments from such a state leave exactly one; a call made when the pair
\* is present changes neither the records nor the tree.
C5_AddExclude ==
  last.op = "AddExclude" =>
    /\ ~f.panic
    /\ Cardinality(ExcludesOf(pre, last.args[1], last.args[2])) <= 1 =>
         Cardinality(ExcludesOf(f, last.args[1], last.args[2])) = 1
    /\ ExcludesOf(pre, last.args[1], last.args[2]) # {} => f = pre

\* No file the edits start from excludes PathB: the first of the two calls
\* appended the record.
C5_Witness ==
  /\ last.op = "AddExclude" /\ last.twice /\ nops = 2
  /\ last.args[1] = PathB
  /\ Cardinality(ExcludesOf(f, last.args[1], last.args[2])) = 1
  /\ f = pre

\* The Replace records of a slice for the key k = (oldPath, oldVersion), and
\* the keys of the records that are not tombstoned.
ReplacesOf(recs, k) == {i \in 1..Len(recs) : recs[i].Old = k}
Keys(recs) == {recs[i].Old : i \in LiveReplaces(recs)}
Last(S) == CHOOSE i \in S : \A k \in S : k <= i

\* The key a replace line of the tree states.
KeyOf(F, id) == Mod(parseString(ArgsOf(F, id)[1]).s, ArgsOf(F, id)[2])

\* C6: after SortBlocks, for every key (oldPath, oldVersion) one Replace record
\* and one replace line remain, those of the record declared last; the earlier
\* declarations of the key are gone from the record slice and from the tree.
C6_LastReplaceWins ==
  (last.op = "SortBlocks" \/ (last.op = "SetRequire" /\ ~f.panic)) =>
    /\ ~f.panic
    /\ Keys(f.Replace) = Keys(pre.Replace)
    /\ \A k \in Keys(pre.Replace) :
         /\ Cardinality(ReplacesOf(f.Replace, k)) = 1
         /\ \A i \in ReplacesOf(f.Replace, k) :
              f.Replace[i] = pre.Replace[Last(ReplacesOf(pre.Replace, k))]
         /\ {id \in LinesOf(f, VerbReplace) : KeyOf(f, id) = k}
              = {pre.Replace[Last(ReplacesOf(pre.Replace, k))].Syntax}
         /\ \A j \in ReplacesOf(pre.Replace, k) :
              j # Last(ReplacesOf(pre.Replace, k)) =>
                pre.Replace[j].Syntax \notin TreeIds(f)

C6_Witness ==
  /\ last.op = "SortBlocks" /\ ~f.panic
  /\ \E k \in Keys(pre.Replace) :
       /\ Cardinality(ReplacesOf(pre.Replace, k)) = 2
       /\ pre.Replace[First(ReplacesOf(pre.Replace, k))].New
            # pre.Replace[Last(ReplacesOf(pre.Replace, k))].New

\* The records of a slice that are not tombstoned, in their order.
Surviving(recs) == LET Kept(r) == r.Path # <<>> IN SelectSeq(recs, Kept)
SurvivingReplaces(recs) == LET Kept(r) == r.Old.Path # <<>> IN SelectSeq(recs, Kept)

\* C7: after any number of Drop calls followed by Cleanup, no entry of the
\* Require, Exclude or Replace slice has an empty path, the tree holds no line
\* of a dropped record, and the records left are the ones that were not
\* tombstoned, unchanged and in their order.
C7_Cleanup ==
  last.op = "Cleanup" =>
    /\ ~f.panic
    /\ f.Require = Surviving(pre.Require)
    /\ f.Exclude = Surviving(pre.Exclude)
    /\ f.Replace = SurvivingReplaces(pre.Replace)
    /\ LiveMods(f.Require) = 1..Len(f.Require)
    /\ LiveMods(f.Exclude) = 1..Len(f.Exclude)
    /\ LiveReplaces(f.Replace) = 1..Len(f.Replace)
    /\ TreeIds(f) = LiveIds(pre)
    /\ \A id \in TreeIds(f) : Token(f, id) = Token(pre, id)

C7_Witness ==
  /\ last.op = "Cleanup" /\ ~f.panic
  /\ Len(f.Require) < Len(pre.Require)
  /\ Len(f.Exclude) < Len(pre.Exclude)
  /\ f.Require # <<>>
  /\ TreeIds(f) # TreeIds(pre)

\* What a Drop call leaves of a slice: the records `hit` blanked (blank being
\* the zero record), their lines removed, every other record as it was.
Dropped(was, now, hit, blank) ==
  /\ Len(now) = Len(was)
  /\ \A i \in 1..Len(was) :
       IF i \in hit THEN now[i] = blank /\ Token(f, was[i].Syntax) = <<>>
       ELSE now[i] = was[i]

\* Every line but those of the records `hit` of the slice is as it was.
OtherLinesKept(was, hit) ==
  /\ f.Stmt = pre.Stmt
  /\ Len(f.lines) = Len(pre.lines)
  /\ \A id \in 1..Len(pre.lines) :
       id \notin {was[i].Syntax : i \in hit} => f.lines[id] = pre.lines[id]

\* C8: DropRequire(path) tombstones every Require record with the path and
\* removes their lines; DropExclude and DropReplace do so for every record that
\* matches the exact pair and for none that matches the path only; no record
\* that is not tombstoned matches the key afterwards, and every record that
\* does not match, of any type, is unchanged.
C8_Drop ==
  /\ last.op = "DropRequire" =>
       /\ ~f.panic
       /\ Dropped(pre.Require, f.Require, Matching(pre.Require, last.args[1]), Blank)
       /\ Matching(f.Require, last.args[1]) = {}
       /\ OtherLinesKept(pre.Require, Matching(pre.Require, last.args[1]))
       /\ f.Exclude = pre.Exclude /\ f.Replace = pre.Replace /\ f.Module = pre.Module
  /\ last.op = "DropExclude" =>
       /\ ~f.panic
       /\ Dropped(pre.Exclude, f.Exclude,
                  ExcludesOf(pre, last.args[1], last.args[2]), Blank)
       /\ ExcludesOf(f, last.args[1], last.args[2]) = {}
       /\ OtherLinesKept(pre.Exclude, ExcludesOf(pre, last.args[1], last.args[2]))
       /\ f.Require = pre.Require /\ f.Replace = pre.Replace /\ f.Module = pre.Module
  /\ last.op = "DropReplace" =>
       /\ ~f.panic
       /\ Dropped(pre.Replace, f.Replace,
                  ReplacesOf(pre.Replace, Mod(last.args[1], last.args[2])),
                  BlankReplace)
       /\ ReplacesOf(f.Replace, Mod(last.args[1], last.args[2])) = {}
       /\ OtherLinesKept(pre.Replace,
                         ReplacesOf(pre.Replace, Mod(last.args[1], last.args[2])))
       /\ f.Require = pre.Require /\ f.Exclude = pre.Exclude /\ f.Module = pre.Module

C8_Witness ==
  /\ last.op = "DropExclude" /\ ~f.panic
  /\ Cardinality(ExcludesOf(pre, last.args[1], last.args[2])) = 2
  /\ \E i \in 1..Len(f.Exclude) :
       f.Exclude[i].Path = last.args[1] /\ f.Exclude[i].Version # last.args[2]

----------------------------------------------------------------------------
(* Properties of decoding, under SpecParse *)

\* After a turn of Parse that called File.add: the line decoded, its tokens as
\* they were, and whether the turn left no diagnostic.
Decoded == last.op = "add"
DecodedVerb == VerbOf(pre, last.args[1])
DecodedArgs == ArgsOf(pre, last.args[1])
Accepted == Len(errs) = last.args[2]

\* The string a token stands for, when it is well formed.
WellFormed(tok) == parseString(tok).ok
StringOf(tok) == parseString(tok).s

\* A version as a statement may give it: valid, or resolved by the fix hook.
VersionOk(tok) ==
  /\ WellFormed(tok)
  /\ IsValid(StringOf(tok)) \/ (fix = "resolve" /\ StringOf(tok) = Master)

\* The statement decoded is a require or an exclude of a path and a version,
\* or a replace of them by the directory ./d.
HasLeftSide ==
  /\ Decoded
  /\ \/ DecodedVerb \in {VerbRequire, VerbExclude} /\ Len(DecodedArgs) = 2
     \/ /\ DecodedVerb = VerbReplace /\ Len(DecodedArgs) = 4
        /\ DecodedArgs[3] = Arrow /\ DecodedArgs[4] = DirD

\* The last element of a path, and the explicit-major pattern: v and digits.
LastElement(p) == From(p, LastIndex(p, "/") + 1)
IsMajorSuffix(e) == Len(e) >= 2 /\ e[1] = "v" /\ \A i \in 2..Len(e) : e[i] \in Digits

\* The major of version v is the one the path p requires: the explicit major
\* of p (that of a gopkg.in path, or a suffix /vN other than /v0 and /v1), and
\* with no explicit major v1 or v0.
Agree(p, v) ==
  IF ParseGopkgIn(p).ok THEN Major(v) = ParseGopkgIn(p).major
  ELSE IF IsMajorSuffix(LastElement(p))
    THEN /\ LastElement(p) \notin {<<"v", "0">>, <<"v", "1">>}
         /\ Major(v) = LastElement(p)
  ELSE Major(v) \in {<<"v", "0">>, <<"v", "1">>}

\* C9: a require or exclude statement, or the left side of a replace, with a
\* syntactically valid version is accepted if and only if the major the path
\* requires is the major of the version, a path without explicit major
\* accepting v0 as well; a path with an explicit major accepts no other major.
C9_MajorAgreement ==
  (/\ HasLeftSide /\ WellFormed(DecodedArgs[1])
   /\ WellFormed(DecodedArgs[2]) /\ IsValid(StringOf(DecodedArgs[2])))
    => (Accepted <=> Agree(StringOf(DecodedArgs[1]), StringOf(DecodedArgs[2])))

\* What the code accepts besides: v0 for a gopkg.in path of major v1.
MajorAgreementInCode ==
  (/\ HasLeftSide /\ WellFormed(DecodedArgs[1])
   /\ WellFormed(DecodedArgs[2]) /\ IsValid(StringOf(DecodedArgs[2])))
    => (Accepted <=>
          \/ Agree(StringOf(DecodedArgs[1]), StringOf(DecodedArgs[2]))
          \/ /\ ParseGopkgIn(StringOf(DecodedArgs[1])).ok
             /\ ParseGopkgIn(StringOf(DecodedArgs[1])).major = <<"v", "1">>
             /\ Major(StringOf(DecodedArgs[2])) = <<"v", "0">>)

\* A replace statement whose left side passes the checks.
ReplaceWithLeft ==
  /\ Decoded /\ DecodedVerb = VerbReplace /\ Len(DecodedArgs) >= 2
  /\ left(pre, <<>>, last.args[1], Len(Token(pre, last.args[1])) - Len(DecodedArgs),
          fix).ok

\* A directory-style path: it begins with ./, ../ or /, with their backslash
\* equivalents, or with a drive letter and a colon.
DirStyle(p) ==
  \/ \E d \in {<<".", "/">>, <<".", ".", "/">>, <<"/">>,
               <<".", BS>>, <<".", ".", BS>>, <<BS>>} : HasPrefix(p, d)
  \/ Len(p) >= 2 /\ p[1] \in Lower \cup Upper /\ p[2] = ":"

\* The right side of a replace as a string: of the token when it is well
\* formed, the token itself otherwise.
RightSide == IF WellFormed(DecodedArgs[4]) THEN StringOf(DecodedArgs[4]) ELSE DecodedArgs[4]

\* C10, as claimed: a replace statement with a valid left side is accepted only
\* with 4 or 5 arguments, the 3rd being =>; with 4 if and only if the 4th is a
\* directory-style path; with 5 if and only if the 5th is a valid version and
\* the 4th is not a directory-style path.
C10_Original ==
  ReplaceWithLeft =>
    /\ Accepted => Len(DecodedArgs) \in {4, 5} /\ DecodedArgs[3] = Arrow
    /\ (Len(DecodedArgs) = 4 /\ DecodedArgs[3] = Arrow) =>
         (Accepted <=> DirStyle(RightSide))
    /\ (Len(DecodedArgs) = 5 /\ DecodedArgs[3] = Arrow) =>
         (Accepted <=> VersionOk(DecodedArgs[5]) /\ ~DirStyle(RightSide))

\* C10, amended: the 4th argument is also to be a well-formed string, and with
\* 4 arguments, where the path separator of the system is /, to hold no
\* backslash.
C10_Replace ==
  ReplaceWithLeft =>
    /\ Accepted => Len(DecodedArgs) \in {4, 5} /\ DecodedArgs[3] = Arrow
    /\ (Len(DecodedArgs) = 4 /\ DecodedArgs[3] = Arrow) =>
         (Accepted <=> /\ WellFormed(DecodedArgs[4])
                       /\ DirStyle(RightSide)
                       /\ ~(Separator = "/" /\ Contains(RightSide, <<BS>>)))
    /\ (Len(DecodedArgs) = 5 /\ DecodedArgs[3] = Arrow) =>
         (Accepted <=> /\ WellFormed(DecodedArgs[4])
                       /\ VersionOk(DecodedArgs[5])
                       /\ ~DirStyle(RightSide))

C10_Witness ==
  /\ ReplaceWithLeft /\ Accepted
  /\ Len(DecodedArgs) = 4
  /\ DecodedArgs[4] = <<".", BS, "l">>
  /\ Separator = BS


\* The turns Parse has made: the lines handed to File.add, and the blocks it
\* has passed over for their header.
Examined(i, j) ==
  \/ i < pos[1]
  \/ i = pos[1] /\ f.Stmt[i].kind = "LineBlock" /\ j < pos[2]

AddedIds ==
  {f.Stmt[i].Line[j] : <<i, j>> \in
     {w \in (1..Len(f.Stmt)) \X (1..MaxLines) :
        /\ w[2] <= Len(f.Stmt[w[1]].Line)
        /\ Examined(w[1], w[2])
        /\ ~(f.Stmt[w[1]].kind = "LineBlock" /\ UnknownBlock(f.Stmt[w[1]]))}}

SkippedBlocks ==
  {i \in 1..Len(f.Stmt) :
     i < pos[1] /\ f.Stmt[i].kind = "LineBlock" /\ UnknownBlock(f.Stmt[i])}

BlockIds(i) == {f.Stmt[i].Line[j] : j \in 1..Len(f.Stmt[i].Line)}

\* The diagnostics written for a set of lines, and the records decoded from it.
DiagsOf(ids) == {k \in 1..Len(errs) : errs[k].line \in ids}

RecordIds ==
  {f.Require[i].Syntax : i \in 1..Len(f.Require)}
    \cup {f.Exclude[i].Syntax : i \in 1..Len(f.Exclude)}
    \cup {f.Replace[i].Syntax : i \in 1..Len(f.Replace)}
    \cup (IF f.Module.set THEN {f.Module.Syntax} ELSE {})

\* The line a comes before the line b in the file.
Precedes(a, b) ==
  \/ Where(f, a)[1] < Where(f, b)[1]
  \/ Where(f, a)[1] = Where(f, b)[1] /\ Where(f, a)[2] < Where(f, b)[2]

\* C11: Parse does not stop at a malformed statement: every top-level statement
\* and every line of a recognised block is examined in order, each one that
\* yields no record leaves one diagnostic, a block with several header tokens
\* or an unknown header leaves one diagnostic and none of its lines is decoded,
\* and Parse returns a File if and only if there is no diagnostic.
C11_ParseExaminesAll ==
  /\ \A id \in AddedIds :
       /\ Cardinality(DiagsOf({id})) <= 1
       /\ DiagsOf({id}) = {} => id \in RecordIds
  /\ \A i \in SkippedBlocks :
       /\ Cardinality(DiagsOf(BlockIds(i))) = 1
       /\ BlockIds(i) \cap RecordIds = {}
  /\ \A id \in TreeIds(f) \ (AddedIds \cup UNION {BlockIds(i) : i \in SkippedBlocks}) :
       DiagsOf({id}) = {} /\ id \notin RecordIds
  /\ \A k, m \in 1..Len(errs) : k < m => Precedes(errs[k].line, errs[m].line)
  /\ pc \in {"parsed", "failed"} =>
       /\ pos[1] > Len(f.Stmt)
       /\ pc = "parsed" <=> errs = <<>>

\* Parse has failed with a diagnostic for a block of two lines it passed over
\* and one for a statement after it.
C11_Witness ==
  /\ pc = "failed"
  /\ \E i \in SkippedBlocks :
       /\ Len(f.Stmt[i].Line) = 2
       /\ \E id \in AddedIds :
            DiagsOf({id}) # {} /\ Precedes(f.Stmt[i].Line[2], id)


----------------------------------------------------------------------------
(* Further properties of the edit operations, under Spec *)

\* C12: from every state that edit operations reach from a parsed File, the
\* states that hold tombstoned records and removed lines included, every edit
\* operation runs to its end: none takes a tombstoned record for a match and
\* none reads the tokens of a line that was removed.
C12_RunsToCompletion == ~f.panic

\* The operations other than SetRequire run to their end.
OnlySetRequirePanics == f.panic => last.op = "SetRequire"


\* The operations that add, update or drop one statement.
AddsAndDrops ==
  {"AddModuleStmt", "AddRequire", "DropRequire", "AddExclude", "DropExclude",
   "AddReplace", "DropReplace"}

RECURSIVE Pick(_, _)
Pick(seq, kept) ==
  IF seq = <<>> THEN <<>>
  ELSE IF Len(seq) \in kept
    THEN Append(Pick(SubSeq(seq, 1, Len(seq) - 1), kept), seq[Len(seq)])
  ELSE Pick(SubSeq(seq, 1, Len(seq) - 1), kept)

\* now is was without some records, each of them tombstoned or repeating the
\* key of a record that stays.
OnlyRepeatsGone(was, now) ==
  \E kept \in SUBSET (1..Len(was)) :
    /\ now = Pick(was, kept)
    /\ \A i \in (1..Len(was)) \ kept :
         \/ was[i].Path = <<>>
         \/ \E k \in kept : Mod(was[k].Path, was[k].Version)
                              = Mod(was[i].Path, was[i].Version)

OnlyRepeatedReplacesGone(was, now) ==
  \E kept \in SUBSET (1..Len(was)) :
    /\ now = Pick(was, kept)
    /\ \A i \in (1..Len(was)) \ kept :
         \/ was[i].Old.Path = <<>>
         \/ \E k \in kept : was[k].Old = was[i].Old

----------------------------------------------------------------------------
(* Further properties of decoding, under SpecParse *)

\* A statement decoded up to the call of moduleMajorVersion: its path and its
\* version have passed parseString and parseVersion.
MajorAsked ==
  /\ HasLeftSide /\ WellFormed(DecodedArgs[1]) /\ VersionOk(DecodedArgs[2])

AskedPath == StringOf(DecodedArgs[1])

\* The turn ended at the diagnostic of moduleMajorVersion's error.
PathRefused ==
  /\ ~Accepted
  /\ errs[Len(errs)].msg = "module path has invalid version number"

\* C14, as claimed: for a path that is not in the gopkg.in form the required
\* major comes from the last path element: v1 when the element is not v and
\* digits, an error when it is exactly v0 or v1, the element itself otherwise.
C14_Original ==
  (MajorAsked /\ ~ParseGopkgIn(AskedPath).ok) =>
    LET e == LastElement(AskedPath)
        r == moduleMajorVersion(AskedPath)
    IN /\ ~IsMajorSuffix(e) => r = [ok |-> TRUE, major |-> <<"v", "1">>]
       /\ (IsMajorSuffix(e) /\ e \in {<<"v", "0">>, <<"v", "1">>}) => ~r.ok
       /\ (IsMajorSuffix(e) /\ e \notin {<<"v", "0">>, <<"v", "1">>}) =>
            r = [ok |-> TRUE, major |-> e]
       /\ PathRefused <=> ~r.ok

\* C14, amended: the path is rejected when the element is v1 or v and digits
\* that begin with 0 (v0, v01); every other element of v and digits is the
\* required major.
C14_RequiredMajor ==
  (MajorAsked /\ ~ParseGopkgIn(AskedPath).ok) =>
    LET e == LastElement(AskedPath)
        r == moduleMajorVersion(AskedPath)
    IN /\ ~IsMajorSuffix(e) => r = [ok |-> TRUE, major |-> <<"v", "1">>]
       /\ (IsMajorSuffix(e) /\ (e[2] = "0" \/ e = <<"v", "1">>)) => ~r.ok
       /\ (IsMajorSuffix(e) /\ ~(e[2] = "0" \/ e = <<"v", "1">>)) =>
            r = [ok |-> TRUE, major |-> e]
       /\ PathRefused <=> ~r.ok

\* A require of x/v10 at v10.0.0 has been accepted.
C14_Witness ==
  /\ MajorAsked /\ AskedPath = PathXv10 /\ Accepted
  /\ DecodedVerb = VerbRequire
  /\ f.Require[Len(f.Require)] =
       [Path |-> PathXv10, Version |-> V1000, Syntax |-> last.args[1]]


\* A turn of Parse that left a diagnostic.
Rejected == last.op \in {"add", "block"} /\ ~Accepted

\* C15: decoding a statement that is rejected with a diagnostic creates no
\* record: the Module, Require, Exclude and Replace records are after it what
\* they were before it; a module statement rejected for the number of its
\* arguments or for its quoting leaves the Module record absent.
C15_RejectedCreatesNoRecord ==
  Rejected =>
    /\ f.Module = pre.Module
    /\ f.Require = pre.Require
    /\ f.Exclude = pre.Exclude
    /\ f.Replace = pre.Replace

\* The same of the Require, Exclude and Replace records only.
RejectedKeepsSlices ==
  Rejected =>
    /\ f.Require = pre.Require
    /\ f.Exclude = pre.Exclude
    /\ f.Replace = pre.Replace

\* The Module record is written once at most, by the first module statement.
ModuleSetOnce ==
  (last.op \in {"add", "block"} /\ pre.Module.set) => f.Module = pre.Module


\* The messages File.add writes without a newline at their end.
Unterminated ==
  {"usage: replace", "replacement module without version must be directory path",
   "replacement directory appears to be Windows path",
   "replacement module directory path cannot have version"}

\* The number of lines of strings.TrimRight(errs.String(), "\n"): a diagnostic
\* begins a line when it is the first or the one before it ended with "\n".
ErrorLines ==
  Cardinality({k \in 1..Len(errs) : k = 1 \/ errs[k - 1].nl})

\* C16: when one Parse call leaves k diagnostics, of any kinds, the aggregate
\* error is the k diagnostics in statement order, one to a line: each begins a
\* line of its own and none is appended to the line of the one before it.
C16_OneDiagnosticPerLine ==
  pc = "failed" => ErrorLines = Len(errs)

\* All but the four replace messages end their line.
OtherDiagnosticsEndLine ==
  \A k \in 1..Len(errs) : errs[k].msg \notin Unterminated => errs[k].nl


----------------------------------------------------------------------------
(* Properties of the normalisation, under Spec *)

\* The (path, version) keys of the Exclude records that are not tombstoned.
ExcludeKeys(F) == {Mod(F.Exclude[i].Path, F.Exclude[i].Version) : i \in LiveMods(F.Exclude)}

\* The statements of the tree that state require, bare or as a block.
RequireStmtsOf(F) ==
  LET IsRequire(st) ==
        IF st.kind = "LineBlock" THEN st.Token = <<VerbRequire>>
        ELSE Token(F, st.Line[1]) # <<>> /\ Token(F, st.Line[1])[1] = VerbRequire
  IN SelectSeq(F.Stmt, IsRequire)

\* What removeDups makes of the excludes of W, N being the File it leaves: of
\* each key the first record and its line stay, the later records of the key
\* and their lines go, and the keys are the same.
ExcludesDeduplicated(W, N) ==
  /\ ExcludeKeys(N) = ExcludeKeys(W)
  /\ \A k \in ExcludeKeys(W) :
       LET was == ExcludesOf(W, k.Path, k.Version)
           now == ExcludesOf(N, k.Path, k.Version)
       IN /\ Cardinality(now) = 1
          /\ \A i \in now : N.Exclude[i] = W.Exclude[First(was)]
          /\ {id \in LinesOf(N, VerbExclude) : KeyOf(N, id) = k}
               = {W.Exclude[First(was)].Syntax}
          /\ \A j \in was \ {First(was)} : W.Exclude[j].Syntax \notin TreeIds(N)

\* C17: after removeDups, and so after SortBlocks, for every (path, version)
\* key one Exclude record and one exclude line remain, those of the first
\* occurrence; no record or line of a key that occurred once is removed; and
\* removeDups touches no Require record and no require line.
C17_FirstExcludeWins ==
  /\ last.op = "SortBlocks" =>
       /\ ExcludesDeduplicated(pre, f)
       /\ f.Require = pre.Require
       /\ f.lines = pre.lines
       /\ LinesOf(f, VerbRequire) = LinesOf(pre, VerbRequire)
  /\ ~f.panic =>
       /\ ExcludesDeduplicated(f, removeDups(f))
       /\ removeDups(f).Require = f.Require
       /\ removeDups(f).lines = f.lines
       /\ RequireStmtsOf(removeDups(f)) = RequireStmtsOf(f)

\* SortBlocks has met a key excluded twice and a key excluded once, with
\* require statements in the file.
C17_Witness ==
  /\ last.op = "SortBlocks"
  /\ \E k \in ExcludeKeys(pre) : Cardinality(ExcludesOf(pre, k.Path, k.Version)) = 2
  /\ \E k \in ExcludeKeys(pre) : Cardinality(ExcludesOf(pre, k.Path, k.Version)) = 1
  /\ Len(f.Exclude) < Len(pre.Exclude)
  /\ LinesOf(pre, VerbRequire) # {}


\* The token list ta does not come after tb: at the first index where they
\* differ, within the shorter one, the token of ta is the smaller string; with
\* no such index ta is not the longer one.
NotAfter(ta, tb) ==
  LET both == 1..(IF Len(ta) < Len(tb) THEN Len(ta) ELSE Len(tb))
      diff == {k \in both : ta[k] # tb[k]}
  IN IF diff = {} THEN Len(ta) <= Len(tb)
     ELSE StrLess(ta[First(diff)], tb[First(diff)])

\* The lines of every block of F are in non-decreasing order.
BlocksSorted(F) ==
  \A i \in 1..Len(F.Stmt) :
    F.Stmt[i].kind = "LineBlock" =>
      \A j \in 1..(Len(F.Stmt[i].Line) - 1) :
        NotAfter(Token(F, F.Stmt[i].Line[j]), Token(F, F.Stmt[i].Line[j + 1]))

\* The statements of N are those of G in their order, each block with the
\* lines it has in G, in some order.
SameStatements(G, N) ==
  /\ Len(N.Stmt) = Len(G.Stmt)
  /\ \A i \in 1..Len(G.Stmt) :
       /\ N.Stmt[i].kind = G.Stmt[i].kind
       /\ N.Stmt[i].Token = G.Stmt[i].Token
       /\ Len(N.Stmt[i].Line) = Len(G.Stmt[i].Line)
       /\ {N.Stmt[i].Line[j] : j \in 1..Len(N.Stmt[i].Line)}
            = {G.Stmt[i].Line[j] : j \in 1..Len(G.Stmt[i].Line)}
       /\ G.Stmt[i].kind = "Line" => N.Stmt[i] = G.Stmt[i]

\* C18: after SortBlocks the lines of every block are in non-decreasing
\* lexicographic order of their token lists (tokens compared pairwise up to
\* the shorter length, the shorter list first on a tie); each block holds the
\* lines it held after the duplicate removal; the order of the top-level
\* statements and the content of the lines are unchanged.
C18_BlocksSorted ==
  /\ (last.op = "SortBlocks" \/ (last.op = "SetRequire" /\ ~f.panic)) =>
       BlocksSorted(f)
  /\ last.op = "SortBlocks" =>
       /\ SameStatements(removeDups(pre), f)
       /\ f.lines = pre.lines

\* SortBlocks has changed the order of the lines of a block.
C18_Witness ==
  /\ last.op = "SortBlocks"
  /\ f.Stmt # removeDups(pre).Stmt
  /\ \E i \in 1..Len(f.Stmt) : Len(f.Stmt[i].Line) >= 2


----------------------------------------------------------------------------
(* Properties of AddReplace, under Spec *)

\* C19: after AddReplace(oldPath, oldVersion, newPath, newVersion), from any
\* File state, exactly one Replace record that is not tombstoned has the key
\* (oldPath, oldVersion), and its replacement is (newPath, newVersion): the
\* first record that had the key is updated in place with its line and every
\* further one is blanked and its line removed, or, when none had it, one
\* record and one line are appended; the Replace records of the same oldPath
\* and another oldVersion are unchanged.
C19_AddReplace ==
  last.op = "AddReplace" =>
    LET old == Mod(last.args[1], last.args[2])
        new == Mod(last.args[3], last.args[4])
        was == ReplacesOf(pre.Replace, old)
        now == ReplacesOf(f.Replace, old)
        n == Len(f.Replace)
    IN /\ ~f.panic
       /\ Cardinality(now) = 1
       /\ \A i \in now :
            /\ f.Replace[i].New = new
            /\ ArgsOf(f, f.Replace[i].Syntax) = Tail(ReplaceTokens(old, new))
            /\ VerbOf(f, f.Replace[i].Syntax) = VerbReplace
       /\ was # {} =>
            /\ now = {First(was)}
            /\ n = Len(pre.Replace)
            /\ f.Replace[First(was)].Syntax = pre.Replace[First(was)].Syntax
            /\ f.Stmt = pre.Stmt
            /\ \A j \in was \ {First(was)} :
                 /\ f.Replace[j] = BlankReplace
                 /\ Token(f, pre.Replace[j].Syntax) = <<>>
       /\ was = {} =>
            /\ now = {n}
            /\ n = Len(pre.Replace) + 1
            /\ f.Replace[n].Syntax \in LiveIds(f) \ TreeIds(pre)
       /\ \A j \in 1..Len(pre.Replace) : j \notin was => f.Replace[j] = pre.Replace[j]
       /\ \A id \in 1..Len(pre.lines) :
            id \notin {pre.Replace[j].Syntax : j \in was} => f.lines[id] = pre.lines[id]
       /\ f.Require = pre.Require /\ f.Exclude = pre.Exclude /\ f.Module = pre.Module

\* The key was declared twice, with a record of the same path and another
\* version beside it, and the call has given the key a new replacement.
C19_Witness ==
  /\ last.op = "AddReplace" /\ ~f.panic
  /\ Cardinality(ReplacesOf(pre.Replace, Mod(last.args[1], last.args[2]))) = 2
  /\ \E j \in LiveReplaces(pre.Replace) :
       /\ pre.Replace[j].Old.Path = last.args[1]
       /\ pre.Replace[j].Old.Version # last.args[2]
  /\ pre.Replace[First(ReplacesOf(pre.Replace, Mod(last.args[1], last.args[2])))].New
       # Mod(last.args[3], last.args[4])


----------------------------------------------------------------------------
(* Records and their lines, under Spec *)

\* The tokens of the line id state the module mod under the verb.
StatesMod(F, id, verb, mod) ==
  /\ Token(F, id) # <<>>
  /\ VerbOf(F, id) = verb
  /\ Len(ArgsOf(F, id)) = 2
  /\ parseString(ArgsOf(F, id)[1]) = [ok |-> TRUE, s |-> mod.Path, tok |-> ArgsOf(F, id)[1]]
  /\ ArgsOf(F, id)[2] = mod.Version

\* The tokens of the line id state the replacement of old by new.
StatesReplace(F, id, old, new) ==
  /\ Token(F, id) # <<>>
  /\ VerbOf(F, id) = VerbReplace
  /\ Len(ArgsOf(F, id)) = (IF new.Version # <<>> THEN 5 ELSE 4)
  /\ parseString(ArgsOf(F, id)[1]).ok
  /\ parseString(ArgsOf(F, id)[1]).s = old.Path
  /\ ArgsOf(F, id)[2] = old.Version
  /\ ArgsOf(F, id)[3] = Arrow
  /\ parseString(ArgsOf(F, id)[4]).ok
  /\ parseString(ArgsOf(F, id)[4]).s = new.Path
  /\ new.Version # <<>> => ArgsOf(F, id)[5] = new.Version

\* Every record of F that is not tombstoned and whose line the tree holds is
\* stated by the tokens of its line.
RecordsMatchLines(F) ==
  /\ (F.Module.set /\ F.Module.Syntax \in TreeIds(F)) =>
       /\ VerbOf(F, F.Module.Syntax) = VerbModule
       /\ Len(ArgsOf(F, F.Module.Syntax)) = 1
       /\ parseString(ArgsOf(F, F.Module.Syntax)[1]).ok
       /\ parseString(ArgsOf(F, F.Module.Syntax)[1]).s = F.Module.Path
  /\ \A i \in LiveMods(F.Require) :
       F.Require[i].Syntax \in TreeIds(F) =>
         StatesMod(F, F.Require[i].Syntax, VerbRequire,
                   Mod(F.Require[i].Path, F.Require[i].Version))
  /\ \A i \in LiveMods(F.Exclude) :
       F.Exclude[i].Syntax \in TreeIds(F) =>
         StatesMod(F, F.Exclude[i].Syntax, VerbExclude,
                   Mod(F.Exclude[i].Path, F.Exclude[i].Version))
  /\ \A i \in LiveReplaces(F.Replace) :
       F.Replace[i].Syntax \in TreeIds(F) =>
         StatesReplace(F, F.Replace[i].Syntax, F.Replace[i].Old, F.Replace[i].New)

\* The versions Parse has written into the records are valid and canonical.
VersionsCanonical(F) ==
  LET Ok(v) == IsValid(v) /\ Canonical(v) = v
  IN /\ \A i \in 1..Len(F.Require) : Ok(F.Require[i].Version)
     /\ \A i \in 1..Len(F.Exclude) : Ok(F.Exclude[i].Version)
     /\ \A i \in 1..Len(F.Replace) :
          /\ Ok(F.Replace[i].Old.Version)
          /\ F.Replace[i].New.Version # <<>> => Ok(F.Replace[i].New.Version)

\* C20: after a successful Parse, with or without a fix hook, and after any
\* sequence of edit operations, the tokens of the line of every record that is
\* not tombstoned and whose line is in the tree state the fields of the record:
\* the path token unquotes to the path, the version token is the version (after
\* Parse the canonical form of what was validated), and for a Replace record
\* the tokens after => are the new path and, when it has one, the new version.
C20_RecordsMatchLines ==
  pc \in {"parsed", "edit"} =>
    /\ RecordsMatchLines(f)
    /\ nops = 0 => VersionsCanonical(f)

\* The same of the states that no panic has left behind.
RecordsMatchLinesCompleted ==
  (pc \in {"parsed", "edit"} /\ ~f.panic) =>
    /\ RecordsMatchLines(f)
    /\ nops = 0 => VersionsCanonical(f)

\* The File that panicked held its records and lines in agreement before.
MismatchOnlyAfterPanic ==
  ~RecordsMatchLines(f) => f.panic /\ last.op = "SetRequire" /\ RecordsMatchLines(pre)

====
